---------------------------- MODULE Spec2Model ----------------------------
(***************************************************************************)
(* A model of the hand analyzer of japanese_mahjong_theory                 *)
(* (src/src/analyzer.rs): shanten::split, Decomposer::shanten_number,      *)
(* shanten::calculate, machi::analyze and machi::Condition, with           *)
(* input::parse and input::check_mentsu, and of the pool of tiles          *)
(* (src/src/game/mahjong/haiyama.rs).                                      *)
(*                                                                         *)
(* A tile (Hai) is a number: Manzu(r) is r, Pinzu(r) is 10 + r, Souzu(r)   *)
(* is 20 + r and Jihai(r) is 30 + r, so that the order of the numbers is   *)
(* the order of the tiles (suit first, then rank).                         *)
(***************************************************************************)
EXTENDS Integers, Sequences, FiniteSets, TLC

VARIABLES
    notation,    \* the string given to input::parse, if the hand was parsed
    pc,          \* "string", "hand", "calculated", "analyzed", then "exchanged"
    tehai,       \* the hand: [menzen: sorted sequence of tiles, fuuro: sequence of melds]
    shanten,     \* what shanten::calculate returned
    conditions,  \* what machi::analyze returned
    exchange,    \* the discard and the draw that gave this hand, if any
    given,       \* the tiles given to input::check_mentsu
    meld,        \* what input::check_mentsu returned
    haiyama,     \* the pool of tiles: the number of copies left of each kind
    haiyama_op,  \* the last operation on the pool, the pool before it, its result
    search       \* shanten::split under way: the calls to come, the decomposers pushed

vars == <<notation, pc, tehai, shanten, conditions, exchange,
          given, meld, haiyama, haiyama_op, search>>

-----------------------------------------------------------------------------
(* Tiles *)

Manzu(r) == r
Pinzu(r) == 10 + r
Souzu(r) == 20 + r
Jihai(r) == 30 + r

IsJihai(hai) == hai > 30

Rank(hai) == hai % 10

\* Hai::gen_all_type: the 34 kinds of tiles.
AllHai ==
    {Manzu(r) : r \in 1..9} \cup {Pinzu(r) : r \in 1..9}
        \cup {Souzu(r) : r \in 1..9} \cup {Jihai(r) : r \in 1..7}

\* Hai::next(false) and Hai::before(false): the neighbour in the same suit,
\* None (here 0) at the end of the suit and for an honor tile.
None == 0
HaiNext(hai) == IF ~IsJihai(hai) /\ Rank(hai) < 9 THEN hai + 1 ELSE None
HaiBefore(hai) == IF ~IsJihai(hai) /\ Rank(hai) > 1 THEN hai - 1 ELSE None

\* YAOCHUUPAI: 1m9m1p9p1s9s1z2z3z4z5z6z7z, in this order.
YAOCHUUPAI ==
    <<Manzu(1), Manzu(9), Pinzu(1), Pinzu(9), Souzu(1), Souzu(9),
      Jihai(1), Jihai(2), Jihai(3), Jihai(4), Jihai(5), Jihai(6), Jihai(7)>>

-----------------------------------------------------------------------------
(* Vectors *)

Min(a, b) == IF a < b THEN a ELSE b

Contains(vec, item) == \E i \in 1..Len(vec) : vec[i] = item

Count(vec, item) == Cardinality({i \in 1..Len(vec) : vec[i] = item})

\* remove_once: the vector without the first element equal to item.
remove_once(container, item) ==
    IF ~Contains(container, item) THEN container
    ELSE LET index == CHOOSE i \in 1..Len(container) :
                          /\ container[i] = item
                          /\ \A j \in 1..(i - 1) : container[j] # item
         IN SubSeq(container, 1, index - 1)
                \o SubSeq(container, index + 1, Len(container))

\* Vec::sort of a vector of tiles (insertion of each element in its place).
RECURSIVE SortInsert(_, _)
SortInsert(vec, hai) ==
    IF vec = <<>> THEN <<hai>>
    ELSE IF hai < Head(vec) THEN <<hai>> \o vec
    ELSE <<Head(vec)>> \o SortInsert(Tail(vec), hai)

-----------------------------------------------------------------------------
(* Melds and decomposers *)

Juntsu(a, b, c) == <<"Juntsu", a, b, c>>
Koutsu(hai) == <<"Koutsu", hai, hai, hai>>
Kantsu(hai) == <<"Kantsu", hai, hai, hai>>

-----------------------------------------------------------------------------
(* input::check_hai_in_range and input::check_mentsu *)

\* check_hai_in_range: numbered tiles of rank 1 to 9, honor tiles of rank 1 to 7.
check_hai_in_range(hai_vec) ==
    \A i \in 1..Len(hai_vec) :
        IF IsJihai(hai_vec[i]) THEN hai_vec[i] - 30 \in 1..7
        ELSE Rank(hai_vec[i]) \in 1..9

\* Option::None of check_mentsu.
NoMentsu == <<"None">>

\* The fault of a check that takes the three ranks in the order given.
check_juntsu_in_order(a, b, c) ==
    IF a + 1 = b /\ b + 1 = c THEN <<a, b, c>> ELSE <<>>

\* check_juntsu: the three ranks after the three swaps (a with b, a with c,
\* b with c), when they are consecutive.
check_juntsu(a, b, c) ==
    LET a1 == IF a > b THEN b ELSE a
        b1 == IF a > b THEN a ELSE b
        a2 == IF a1 > c THEN c ELSE a1
        c2 == IF a1 > c THEN a1 ELSE c
        b3 == IF b1 > c2 THEN c2 ELSE b1
        c3 == IF b1 > c2 THEN b1 ELSE c2
    IN IF a2 + 1 = b3 /\ b3 + 1 = c3 THEN <<a2, b3, c3>> ELSE <<>>

\* check_mentsu: the meld of three or four tiles, NoMentsu when there is none.
check_mentsu(hai_vec) ==
    IF ~check_hai_in_range(hai_vec) THEN NoMentsu
    ELSE IF Len(hai_vec) = 4
    THEN IF hai_vec[1] = hai_vec[2] /\ hai_vec[1] = hai_vec[3] /\ hai_vec[1] = hai_vec[4]
         THEN Kantsu(hai_vec[1])
         ELSE NoMentsu
    ELSE IF Len(hai_vec) = 3
    THEN IF hai_vec[1] = hai_vec[2] /\ hai_vec[1] = hai_vec[3]
         THEN Koutsu(hai_vec[1])
         ELSE IF /\ \A i \in 1..3 : ~IsJihai(hai_vec[i])
                 /\ hai_vec[1] \div 10 = hai_vec[2] \div 10
                 /\ hai_vec[1] \div 10 = hai_vec[3] \div 10
         THEN LET suit == (hai_vec[1] \div 10) * 10
                  ranks == check_juntsu(hai_vec[1] - suit, hai_vec[2] - suit,
                                        hai_vec[3] - suit)
              IN IF ranks # <<>>
                 THEN Juntsu(suit + ranks[1], suit + ranks[2], suit + ranks[3])
                 ELSE NoMentsu
         ELSE NoMentsu
    ELSE NoMentsu

\* Decomposer::new
NewDecomposer ==
    [mentsu_vec |-> <<>>, toitsu_vec |-> <<>>, taatsu_vec |-> <<>>,
     ukihai_vec |-> <<>>, valid_tile_vec |-> <<>>, hourakei |-> "Mentsute"]

PushMentsu(d, mentsu) == [d EXCEPT !.mentsu_vec = Append(@, mentsu)]
PushToitsu(d, hai) == [d EXCEPT !.toitsu_vec = Append(@, hai)]
PushTaatsu(d, lhs, rhs) == [d EXCEPT !.taatsu_vec = Append(@, <<lhs, rhs>>)]
PushUkihai(d, hai) == [d EXCEPT !.ukihai_vec = Append(@, hai)]
PushValid(d, hai) == [d EXCEPT !.valid_tile_vec = Append(@, hai)]

Range(vec) == {vec[i] : i \in 1..Len(vec)}

-----------------------------------------------------------------------------
(* shanten::split *)

\* What a call leaves behind: the decomposers it pushed into decomposers_vec,
\* in order, and the state of the decomposer it was handed by reference.
Pushed(vec, dec) == [vec |-> vec, dec |-> dec]

\* The fault of a branch that works on the object the previous branch wrote
\* to: it sees the groups its sibling added.
AliasedDecomposer(decomposer, last) == last

\* `&mut decomposer.clone()`: a branch works on a copy of the caller's
\* decomposer, not on the object `last` that the previous branch wrote to.
BranchDecomposer(decomposer, last) == decomposer

RECURSIVE split(_, _)

handle_ukihai(menzen_vec, decomposer, ukihai) ==
    split(remove_once(menzen_vec, ukihai), PushUkihai(decomposer, ukihai))

handle_taatsu(menzen_vec, decomposer, lhs, rhs) ==
    split(remove_once(remove_once(menzen_vec, lhs), rhs),
          PushTaatsu(decomposer, lhs, rhs))

handle_toitsu(menzen_vec, decomposer, toitsu) ==
    split(remove_once(remove_once(menzen_vec, toitsu), toitsu),
          PushToitsu(decomposer, toitsu))

handle_juntsu(menzen_vec, decomposer, first, second, third) ==
    split(remove_once(remove_once(remove_once(menzen_vec, first), second), third),
          PushMentsu(decomposer, Juntsu(first, second, third)))

handle_koutsu(menzen_vec, decomposer, koutsu) ==
    split(remove_once(remove_once(remove_once(menzen_vec, koutsu), koutsu), koutsu),
          PushMentsu(decomposer, Koutsu(koutsu)))

\* The fault of a search that has no branch for a one-gap partial run.
NoKanchanBranch(menzen_vec, current_plus_one, current_plus_two) == FALSE

\* The branch on the partial run current, current + 2 is taken only when
\* current + 1 is not in the hand (the else of `if filtered.len() > 0`).
KanchanBranch(menzen_vec, current_plus_one, current_plus_two) ==
    /\ ~Contains(menzen_vec, current_plus_one)
    /\ current_plus_two # None
    /\ Contains(menzen_vec, current_plus_two)

split(menzen_vec, decomposer) ==
    IF Len(menzen_vec) <= 1
    THEN LET closed == IF Len(menzen_vec) = 1
                       THEN PushUkihai(decomposer, menzen_vec[1])
                       ELSE decomposer
         IN Pushed(<<closed>>, closed)
    ELSE
    LET current == menzen_vec[1]
        next == menzen_vec[2]
        skip(last) == Pushed(<<>>, last)
        toitsu ==
            IF current = next
            THEN handle_toitsu(menzen_vec, BranchDecomposer(decomposer, decomposer),
                               current)
            ELSE skip(decomposer)
        koutsu ==
            IF Len(menzen_vec) > 2 /\ current = next /\ current = menzen_vec[3]
            THEN handle_koutsu(menzen_vec, BranchDecomposer(decomposer, toitsu.dec),
                               current)
            ELSE skip(toitsu.dec)
        current_plus_one == HaiNext(current)
        current_plus_two ==
            IF current_plus_one = None THEN None ELSE HaiNext(current_plus_one)
        numbered == ~IsJihai(current) /\ current_plus_one # None
        taatsu ==
            IF numbered /\ Contains(menzen_vec, current_plus_one)
            THEN handle_taatsu(menzen_vec, BranchDecomposer(decomposer, koutsu.dec),
                               current, current_plus_one)
            ELSE IF numbered
                    /\ KanchanBranch(menzen_vec, current_plus_one, current_plus_two)
            THEN handle_taatsu(menzen_vec, BranchDecomposer(decomposer, koutsu.dec),
                               current, current_plus_two)
            ELSE skip(koutsu.dec)
        juntsu ==
            IF /\ numbered
               /\ Contains(menzen_vec, current_plus_one)
               /\ current_plus_two # None
               /\ Contains(menzen_vec, current_plus_two)
            THEN handle_juntsu(menzen_vec, BranchDecomposer(decomposer, taatsu.dec),
                               current, current_plus_one, current_plus_two)
            ELSE skip(taatsu.dec)
        ukihai ==
            handle_ukihai(menzen_vec, BranchDecomposer(decomposer, juntsu.dec),
                          current)
    IN Pushed(toitsu.vec \o koutsu.vec \o taatsu.vec \o juntsu.vec \o ukihai.vec,
              decomposer)

\* The fault of a branch on a floating tile that leaves the tile in the hand.
ukihai_kept(menzen_vec, ukihai) == menzen_vec

\* handle_ukihai: the concealed tiles of the call it makes.
ukihai_removed(menzen_vec, ukihai) == remove_once(menzen_vec, ukihai)

\* A call of split: its concealed tiles, the decomposer it is handed, its
\* depth, and the number of concealed tiles of its caller.
Call(menzen_vec, decomposer, depth, caller) ==
    [menzen_vec |-> menzen_vec, decomposer |-> decomposer, depth |-> depth,
     caller |-> caller]

\* The calls of split that one call makes, in order: none when at most one
\* tile is left, else the branches on the first tile, each on a copy of the
\* decomposer and at depth + 1.
Calls(call) ==
    LET menzen_vec == call.menzen_vec
        decomposer == call.decomposer
        branch(tiles, d) == <<Call(tiles, d, call.depth + 1, Len(menzen_vec))>>
    IN IF Len(menzen_vec) <= 1 THEN <<>>
       ELSE
       LET current == menzen_vec[1]
           next == menzen_vec[2]
           current_plus_one == HaiNext(current)
           current_plus_two ==
               IF current_plus_one = None THEN None ELSE HaiNext(current_plus_one)
           numbered == ~IsJihai(current) /\ current_plus_one # None
           toitsu ==
               IF current = next
               THEN branch(remove_once(remove_once(menzen_vec, current), current),
                           PushToitsu(decomposer, current))
               ELSE <<>>
           koutsu ==
               IF Len(menzen_vec) > 2 /\ current = next /\ current = menzen_vec[3]
               THEN branch(remove_once(remove_once(remove_once(menzen_vec, current),
                                                   current), current),
                           PushMentsu(decomposer, Koutsu(current)))
               ELSE <<>>
           taatsu ==
               IF numbered /\ Contains(menzen_vec, current_plus_one)
               THEN branch(remove_once(remove_once(menzen_vec, current), current_plus_one),
                           PushTaatsu(decomposer, current, current_plus_one))
               ELSE IF numbered
                       /\ KanchanBranch(menzen_vec, current_plus_one, current_plus_two)
               THEN branch(remove_once(remove_once(menzen_vec, current), current_plus_two),
                           PushTaatsu(decomposer, current, current_plus_two))
               ELSE <<>>
           juntsu ==
               IF /\ numbered
                  /\ Contains(menzen_vec, current_plus_one)
                  /\ current_plus_two # None
                  /\ Contains(menzen_vec, current_plus_two)
               THEN branch(remove_once(remove_once(remove_once(menzen_vec, current),
                                                   current_plus_one), current_plus_two),
                           PushMentsu(decomposer,
                                      Juntsu(current, current_plus_one, current_plus_two)))
               ELSE <<>>
           ukihai ==
               branch(ukihai_removed(menzen_vec, current), PushUkihai(decomposer, current))
       IN toitsu \o koutsu \o taatsu \o juntsu \o ukihai

\* What a call pushes into decomposers_vec: the decomposer, with the last
\* tile as a floating tile, when at most one tile is left; nothing otherwise.
PushedBy(call) ==
    IF Len(call.menzen_vec) = 1
    THEN <<PushUkihai(call.decomposer, call.menzen_vec[1])>>
    ELSE IF Len(call.menzen_vec) = 0 THEN <<call.decomposer>>
    ELSE <<>>

-----------------------------------------------------------------------------
(* Decomposer::shanten_number *)

\* Whether a subtraction of unsigned numbers in shanten_number goes below
\* zero: `max_mentsu_toitsu_taatsu - 1 - mentsu_vec.len()` and
\* `max_mentsu_toitsu_taatsu - mentsu_vec.len() - taatsu_num` for Mentsute,
\* after the return for a pair held twice, `7 - toitsu_vec.len()` for
\* Chiitoitsu.
shanten_number_underflow(d, hai_number) ==
    IF d.hourakei = "Mentsute"
    THEN /\ Cardinality({d.toitsu_vec[i] : i \in 1..Len(d.toitsu_vec)}) = Len(d.toitsu_vec)
         /\ LET max_mentsu_toitsu_taatsu == (hai_number + 1) \div 3
                taatsu_num == IF max_mentsu_toitsu_taatsu - 1 - Len(d.mentsu_vec)
                                     < Len(d.taatsu_vec)
                              THEN max_mentsu_toitsu_taatsu - 1 - Len(d.mentsu_vec)
                              ELSE Len(d.taatsu_vec)
            IN \/ max_mentsu_toitsu_taatsu < 1
               \/ max_mentsu_toitsu_taatsu - 1 < Len(d.mentsu_vec)
               \/ max_mentsu_toitsu_taatsu - Len(d.mentsu_vec) < taatsu_num
    ELSE IF d.hourakei = "Chiitoitsu" THEN 7 < Len(d.toitsu_vec)
    ELSE FALSE

\* The fault of an evaluation that does not look for a pair held twice.
shanten_number_any_toitsu(d, hai_number) ==
    LET max_mentsu_toitsu_taatsu == (hai_number + 1) \div 3
        taatsu_num == Min(max_mentsu_toitsu_taatsu - 1 - Len(d.mentsu_vec),
                          Len(d.taatsu_vec))
        toitsu_num == Min(max_mentsu_toitsu_taatsu - Len(d.mentsu_vec) - taatsu_num,
                          Len(d.toitsu_vec))
    IN (hai_number \div 3) * 2 - 2 * Len(d.mentsu_vec) - toitsu_num - taatsu_num

shanten_number_Mentsute(d, hai_number) ==
    IF Cardinality(Range(d.toitsu_vec)) # Len(d.toitsu_vec) THEN 13
    ELSE LET max_mentsu_toitsu_taatsu == (hai_number + 1) \div 3
             taatsu_num == Min(max_mentsu_toitsu_taatsu - 1 - Len(d.mentsu_vec),
                               Len(d.taatsu_vec))
             toitsu_num == Min(max_mentsu_toitsu_taatsu - Len(d.mentsu_vec) - taatsu_num,
                               Len(d.toitsu_vec))
         IN (hai_number \div 3) * 2 - 2 * Len(d.mentsu_vec) - toitsu_num - taatsu_num

shanten_number_Chiitoitsu(d) ==
    13 - 2 * Len(d.toitsu_vec) - Min(Len(d.valid_tile_vec), 7 - Len(d.toitsu_vec))

shanten_number_Kokushimusou(d) == 13 - Len(d.valid_tile_vec)

shanten_number(d, hai_number) ==
    CASE d.hourakei = "Mentsute" -> shanten_number_Mentsute(d, hai_number)
      [] d.hourakei = "Chiitoitsu" -> shanten_number_Chiitoitsu(d)
      [] d.hourakei = "Kokushimusou" -> shanten_number_Kokushimusou(d)

-----------------------------------------------------------------------------
(* shanten::calculate *)

\* The fault of a closure that does not clear the set when a decomposer is
\* below the minimum so far.
push_without_clear(acc, decomposer, hai_number) ==
    LET number == shanten_number(decomposer, hai_number)
    IN IF number = acc.number
       THEN [acc EXCEPT !.inserted = Append(@, decomposer)]
       ELSE IF number < acc.number
       THEN [number |-> number, inserted |-> Append(acc.inserted, decomposer)]
       ELSE acc

\* push_into_decomposers: keep the decomposer when it reaches the minimum so
\* far, restart from it when it is below the minimum, drop it otherwise.
\* `inserted` lists the values inserted into min_shanten_decomposers since it
\* was last cleared; the HashSet holds each of them once (see InsertedSet).
push_into_decomposers(acc, decomposer, hai_number) ==
    LET number == shanten_number(decomposer, hai_number)
    IN IF number = acc.number
       THEN [acc EXCEPT !.inserted = Append(@, decomposer)]
       ELSE IF number < acc.number
       THEN [number |-> number, inserted |-> <<decomposer>>]
       ELSE acc

InsertedSet(acc) == [number |-> acc.number, decomposers |-> Range(acc.inserted)]

\* `for decomposer in decomposers_vec { push_into_decomposers(decomposer) }`:
\* what the loop leaves, written without the loop. The number ends as the
\* least of acc.number and the decomposers' numbers; the set holds the
\* decomposers of that number, after those acc held when the number stayed.
PushAll(acc, decomposers_vec, hai_number) ==
    LET numbers == [i \in 1..Len(decomposers_vec) |->
                       shanten_number(decomposers_vec[i], hai_number)]
        below == {numbers[i] : i \in 1..Len(decomposers_vec)} \cap
                     {n \in -1..13 : n < acc.number}
        number == IF below = {} THEN acc.number
                  ELSE CHOOSE n \in below : \A m \in below : n <= m
        kept == IF number = acc.number THEN acc.inserted ELSE <<>>
    IN [number |-> number,
        inserted |-> kept \o SelectSeq(decomposers_vec,
                         LAMBDA d : shanten_number(d, hai_number) = number)]

\* The fault of a scan that starts anew at the third equal tile, and pairs
\* the fourth with it.
RECURSIVE ChiitoitsuScanAnew(_, _, _, _, _)
ChiitoitsuScanAnew(menzen_vec, i, last_hai, last_hai_used, d) ==
    IF i > Len(menzen_vec)
    THEN IF ~last_hai_used THEN PushValid(d, last_hai) ELSE d
    ELSE LET cur == menzen_vec[i]
         IN IF cur = last_hai /\ ~last_hai_used
            THEN ChiitoitsuScanAnew(menzen_vec, i + 1, last_hai, TRUE,
                                    PushToitsu(d, cur))
            ELSE ChiitoitsuScanAnew(menzen_vec, i + 1, cur, FALSE,
                                    IF ~last_hai_used THEN PushValid(d, last_hai)
                                    ELSE d)

\* The scan of the Chiitoitsu analysis, from the i-th tile on: a second equal
\* tile makes a pair, further equal tiles float, a tile never paired is a
\* valid lone tile.
RECURSIVE ChiitoitsuScan(_, _, _, _, _)
ChiitoitsuScan(menzen_vec, i, last_hai, last_hai_used, d) ==
    IF i > Len(menzen_vec)
    THEN IF ~last_hai_used THEN PushValid(d, last_hai) ELSE d
    ELSE LET cur == menzen_vec[i]
         IN IF cur = last_hai
            THEN IF ~last_hai_used
                 THEN ChiitoitsuScan(menzen_vec, i + 1, last_hai, TRUE,
                                     PushToitsu(d, cur))
                 ELSE ChiitoitsuScan(menzen_vec, i + 1, last_hai, TRUE,
                                     PushUkihai(d, cur))
            ELSE ChiitoitsuScan(menzen_vec, i + 1, cur, FALSE,
                                IF ~last_hai_used THEN PushValid(d, last_hai) ELSE d)

ChiitoitsuDecomposer(menzen_vec) ==
    ChiitoitsuScan(menzen_vec, 2, menzen_vec[1], FALSE,
                   [NewDecomposer EXCEPT !.hourakei = "Chiitoitsu"])

\* The fault of a walk that counts every second tile of a kind, not only the
\* first such tile.
RECURSIVE KokushimusouWalkPairs(_, _, _, _, _, _)
KokushimusouWalkPairs(menzen_vec, y, m, toitsu_included, yaochuupai_iter_changed, d) ==
    IF y > Len(YAOCHUUPAI) \/ m > Len(menzen_vec) THEN d
    ELSE LET lhs == YAOCHUUPAI[y]
             rhs == menzen_vec[m]
         IN IF lhs < rhs
            THEN KokushimusouWalkPairs(menzen_vec, y + 1, m, toitsu_included, TRUE, d)
            ELSE IF lhs > rhs
            THEN KokushimusouWalkPairs(menzen_vec, y, m + 1, toitsu_included,
                                       yaochuupai_iter_changed, PushUkihai(d, rhs))
            ELSE KokushimusouWalkPairs(menzen_vec, y, m + 1, TRUE, FALSE,
                                       PushValid(d, rhs))

\* The merge walk of the Kokushimusou analysis: y and m are the positions in
\* YAOCHUUPAI and in the hand.
RECURSIVE KokushimusouWalk(_, _, _, _, _, _)
KokushimusouWalk(menzen_vec, y, m, toitsu_included, yaochuupai_iter_changed, d) ==
    IF y > Len(YAOCHUUPAI) \/ m > Len(menzen_vec) THEN d
    ELSE LET lhs == YAOCHUUPAI[y]
             rhs == menzen_vec[m]
         IN IF lhs < rhs
            THEN KokushimusouWalk(menzen_vec, y + 1, m, toitsu_included, TRUE, d)
            ELSE IF lhs > rhs
            THEN KokushimusouWalk(menzen_vec, y, m + 1, toitsu_included,
                                  yaochuupai_iter_changed, PushUkihai(d, rhs))
            ELSE IF yaochuupai_iter_changed
            THEN KokushimusouWalk(menzen_vec, y, m + 1, toitsu_included, FALSE,
                                  PushValid(d, rhs))
            ELSE IF ~toitsu_included
            THEN KokushimusouWalk(menzen_vec, y, m + 1, TRUE, FALSE,
                                  PushValid(d, rhs))
            ELSE KokushimusouWalk(menzen_vec, y, m + 1, toitsu_included, FALSE,
                                  PushUkihai(d, rhs))

KokushimusouDecomposer(menzen_vec) ==
    KokushimusouWalk(menzen_vec, 1, 1, FALSE, TRUE,
                     [NewDecomposer EXCEPT !.hourakei = "Kokushimusou"])

\* The fault of a guard that does not look at the open melds.
SpecialHourakeiOpen(t) == Len(t.menzen) = 14

\* The guard of the Chiitoitsu and Kokushimusou analyses.
SpecialHourakei(t) == Len(t.menzen) = 14 /\ Len(t.fuuro) = 0

\* The decomposers of the Mentsute analysis, as split pushed them.
MentsuteDecomposers(t) == split(t.menzen, NewDecomposer).vec

calculate(t) ==
    LET hai_number == Len(t.menzen)
        start == [number |-> (hai_number \div 3) * 2, inserted |-> <<>>]
        pushed == MentsuteDecomposers(t)
        mentsute == PushAll(start, pushed, hai_number)
        chiitoitsu ==
            IF SpecialHourakei(t)
            THEN push_into_decomposers(mentsute, ChiitoitsuDecomposer(t.menzen),
                                       hai_number)
            ELSE mentsute
        kokushimusou ==
            IF SpecialHourakei(t)
            THEN push_into_decomposers(chiitoitsu, KokushimusouDecomposer(t.menzen),
                                       hai_number)
            ELSE chiitoitsu
    IN InsertedSet(kokushimusou)

-----------------------------------------------------------------------------
(* machi::Condition *)

\* BTreeMap::insert, BTreeMap::remove
Insert(map, key, value) ==
    [k \in DOMAIN map \cup {key} |-> IF k = key THEN value ELSE map[k]]

Remove(map, key) == [k \in DOMAIN map \ {key} |-> map[k]]

EmptyMap == [k \in {} |-> 0]

\* `self.machihai.insert(hai, 4)` for every tile of a set; None is no tile.
InsertAll(map, hais) ==
    [k \in DOMAIN map \cup (hais \ {None}) |-> IF k \in hais THEN 4 ELSE map[k]]

\* The fault of a condition that is foul from the start.
NewConditionFuriten(sutehai, number, hai_number) ==
    [sutehai |-> sutehai, machihai |-> EmptyMap, furiten |-> TRUE,
     shanten_number |-> number, hai_number |-> hai_number, error |-> "None"]

\* Condition::new
NewCondition(sutehai, number, hai_number) ==
    [sutehai |-> sutehai, machihai |-> EmptyMap, furiten |-> FALSE,
     shanten_number |-> number, hai_number |-> hai_number, error |-> "None"]

\* The tiles a partial run waits for: the middle tile of lhs, lhs + 2, the two
\* outer tiles of lhs, lhs + 1.
TaatsuMachi(taatsu) ==
    LET lhs == taatsu[1]
        rhs == taatsu[2]
    IN IF IsJihai(lhs) \/ IsJihai(rhs) \/ lhs \div 10 # rhs \div 10 THEN {}
       ELSE IF rhs - lhs = 2 THEN {HaiNext(lhs)}
       ELSE IF rhs - lhs = 1 THEN {HaiBefore(lhs), HaiNext(rhs)}
       ELSE {}

\* "Get 'None' between": the middle tile of a one-gap partial run is missing.
TaatsuError(taatsu) ==
    /\ ~IsJihai(taatsu[1]) /\ ~IsJihai(taatsu[2])
    /\ taatsu[1] \div 10 = taatsu[2] \div 10
    /\ taatsu[2] - taatsu[1] = 2
    /\ HaiNext(taatsu[1]) = None

\* The tiles one and two steps below and above a floating tile.
UkihaiNeighbours(hai) ==
    IF IsJihai(hai) THEN {}
    ELSE (IF HaiBefore(hai) # None
          THEN {HaiBefore(hai), HaiBefore(HaiBefore(hai))} ELSE {})
         \cup
         (IF HaiNext(hai) # None
          THEN {HaiNext(hai), HaiNext(HaiNext(hai))} ELSE {})

\* handle without the test that leaves the discarded floating tile out.
MentsuteMachiWithSutehai(sutehai, d, hai_number) ==
    LET max_mentsu_toitsu_taatsu == (hai_number + 1) \div 3
        mentsu_taatsu == Len(d.mentsu_vec) + Len(d.taatsu_vec)
        all == mentsu_taatsu + Len(d.toitsu_vec)
        others == {d.ukihai_vec[i] : i \in 1..Len(d.ukihai_vec)}
    IN IF mentsu_taatsu > max_mentsu_toitsu_taatsu - 1 THEN {}
       ELSE IF all > max_mentsu_toitsu_taatsu THEN {}
       ELSE UNION {(IF d.taatsu_vec[i][2] - d.taatsu_vec[i][1] = 2
                    THEN {d.taatsu_vec[i][1] + 1}
                    ELSE {d.taatsu_vec[i][1] - 1, d.taatsu_vec[i][2] + 1})
                   : i \in 1..Len(d.taatsu_vec)}
            \cup (IF Len(d.toitsu_vec) > 1
                  THEN {d.toitsu_vec[i] : i \in 1..Len(d.toitsu_vec)} ELSE {})
            \cup (IF all < max_mentsu_toitsu_taatsu
                  THEN {d.toitsu_vec[i] : i \in 1..Len(d.toitsu_vec)} \cup others
                  ELSE {})

\* The tiles handle inserts for a Mentsute decomposer.
MentsuteMachi(sutehai, d, hai_number) ==
    LET max_mentsu_toitsu_taatsu == (hai_number + 1) \div 3
        mentsu_taatsu == Len(d.mentsu_vec) + Len(d.taatsu_vec)
        all == mentsu_taatsu + Len(d.toitsu_vec)
        others == Range(d.ukihai_vec) \ {sutehai}
    IN IF mentsu_taatsu > max_mentsu_toitsu_taatsu - 1 THEN {}
       ELSE IF all > max_mentsu_toitsu_taatsu THEN {}
       ELSE UNION {TaatsuMachi(d.taatsu_vec[i]) : i \in 1..Len(d.taatsu_vec)}
            \cup (IF Len(d.toitsu_vec) > 1 THEN Range(d.toitsu_vec) ELSE {})
            \cup (IF all < max_mentsu_toitsu_taatsu
                  THEN Range(d.toitsu_vec) \cup others
                       \cup (IF mentsu_taatsu < max_mentsu_toitsu_taatsu - 1
                             THEN UNION {UkihaiNeighbours(u) : u \in others}
                             ELSE {})
                  ELSE {})

\* The tiles handle inserts for a Chiitoitsu decomposer.
ChiitoitsuMachi(sutehai, d) ==
    IF Len(d.toitsu_vec) + Len(d.valid_tile_vec) >= 7
    THEN Range(d.valid_tile_vec) \ {sutehai}
    ELSE AllHai \ Range(d.toitsu_vec)

\* The second walk of the Kokushimusou arm: the terminal and honor tiles that
\* come before a valid tile without being one; y and v are the positions in
\* YAOCHUUPAI and in the valid tiles. It ends with the position in YAOCHUUPAI.
RECURSIVE MissingWalk(_, _, _, _, _)
MissingWalk(valid, y, v, yaochuupai_used, found) ==
    IF y > Len(YAOCHUUPAI) \/ v > Len(valid) THEN [found |-> found, y |-> y]
    ELSE LET lhs == YAOCHUUPAI[y]
             rhs == valid[v]
         IN IF lhs < rhs
            THEN MissingWalk(valid, y + 1, v, FALSE,
                             IF ~yaochuupai_used THEN found \cup {lhs} ELSE found)
            ELSE IF lhs > rhs
            THEN MissingWalk(valid, y, v + 1, yaochuupai_used, found)
            ELSE MissingWalk(valid, y, v + 1, TRUE, found)

\* The tiles handle inserts for a Kokushimusou decomposer.
KokushimusouMachi(d) ==
    LET valid == d.valid_tile_vec
        yaochuupai_pair == \E i \in 1..(Len(valid) - 1) : valid[i] = valid[i + 1]
        walk == MissingWalk(valid, 1, 1, FALSE, {})
    IN IF ~yaochuupai_pair THEN Range(YAOCHUUPAI)
       ELSE walk.found \cup {YAOCHUUPAI[i] : i \in (walk.y + 1)..Len(YAOCHUUPAI)}

\* Whether handle looks at the decomposer at all: the discard is one of its
\* floating tiles or, for Chiitoitsu, one of its valid lone tiles.
Handled(sutehai, d) ==
    \/ Contains(d.ukihai_vec, sutehai)
    \/ d.hourakei = "Chiitoitsu" /\ Contains(d.valid_tile_vec, sutehai)

\* The tiles handle inserts into machihai for one decomposer.
Machi(cond, d) ==
    IF cond.shanten_number < 0 \/ ~Handled(cond.sutehai, d) THEN {}
    ELSE IF d.hourakei = "Mentsute"
    THEN MentsuteMachi(cond.sutehai, d, cond.hai_number)
    ELSE IF d.hourakei = "Chiitoitsu" THEN ChiitoitsuMachi(cond.sutehai, d)
    ELSE KokushimusouMachi(d)

\* The error handle returns for one decomposer, "None" when it returns Ok.
HandleError(cond, d) ==
    IF cond.shanten_number <= -2 THEN "shanten number"
    ELSE IF /\ cond.shanten_number >= 0
            /\ Handled(cond.sutehai, d)
            /\ d.hourakei = "Mentsute"
            /\ (Len(d.mentsu_vec) + Len(d.taatsu_vec)
                    <= (cond.hai_number + 1) \div 3 - 1)
            /\ (Len(d.mentsu_vec) + Len(d.taatsu_vec) + Len(d.toitsu_vec)
                    <= (cond.hai_number + 1) \div 3)
            /\ \E i \in 1..Len(d.taatsu_vec) : TaatsuError(d.taatsu_vec[i])
    THEN "Get None"
    ELSE "None"

\* Whether a subtraction of unsigned numbers in handle goes below zero:
\* `max_mentsu_toitsu_taatsu - 1` and `rhs - lhs` in the Mentsute arm.
handle_underflow(cond, d) ==
    /\ cond.shanten_number >= 0
    /\ Handled(cond.sutehai, d)
    /\ d.hourakei = "Mentsute"
    /\ \/ (cond.hai_number + 1) \div 3 < 1
       \/ /\ (Len(d.mentsu_vec) + Len(d.taatsu_vec) <= (cond.hai_number + 1) \div 3 - 1)
          /\ (Len(d.mentsu_vec) + Len(d.taatsu_vec) + Len(d.toitsu_vec)
                  <= (cond.hai_number + 1) \div 3)
          /\ \E i \in 1..Len(d.taatsu_vec) :
                 /\ ~IsJihai(d.taatsu_vec[i][1])
                 /\ d.taatsu_vec[i][1] \div 10 = d.taatsu_vec[i][2] \div 10
                 /\ d.taatsu_vec[i][2] < d.taatsu_vec[i][1]

\* Condition::handle
handle(cond, d) ==
    IF HandleError(cond, d) # "None"
    THEN [cond EXCEPT !.error = HandleError(cond, d)]
    ELSE [cond EXCEPT !.machihai = InsertAll(@, Machi(cond, d))]

\* `for decomposer in decomposers_set.iter() { condition.handle(decomposer)?; }`:
\* what the loop leaves, written without the loop. Every handle inserts its
\* tiles with the count 4, so the map ends with the tiles of all of them; the
\* first error ends the loop.
HandleAll(cond, decomposers_set) ==
    IF \E d \in decomposers_set : HandleError(cond, d) # "None"
    THEN [cond EXCEPT !.error =
              HandleError(cond, CHOOSE d \in decomposers_set :
                                    HandleError(cond, d) # "None")]
    ELSE [cond EXCEPT !.machihai =
              InsertAll(@, UNION {Machi(cond, d) : d \in decomposers_set})]

\* The fault of a count that is decremented to zero and left in the map.
check_count_to_zero(machihai, item) ==
    IF item \in DOMAIN machihai /\ machihai[item] > 0
    THEN Insert(machihai, item, machihai[item] - 1)
    ELSE machihai

\* check_count: one visible copy of item leaves one copy less to wait for.
check_count(machihai, item) ==
    IF item \in DOMAIN machihai
    THEN IF machihai[item] > 1 THEN Insert(machihai, item, machihai[item] - 1)
         ELSE IF machihai[item] = 1 THEN Remove(machihai, item)
         ELSE machihai
    ELSE machihai

\* The tiles of an open meld, as finally_handle counts them.
MentsuHai(mentsu) ==
    IF mentsu[1] = "Juntsu" THEN <<mentsu[2], mentsu[3], mentsu[4]>>
    ELSE IF mentsu[1] = "Koutsu" THEN <<mentsu[2], mentsu[2], mentsu[2]>>
    ELSE <<mentsu[2], mentsu[2], mentsu[2], mentsu[2]>>

RECURSIVE FuuroHai(_)
FuuroHai(fuuro) ==
    IF fuuro = <<>> THEN <<>> ELSE MentsuHai(Head(fuuro)) \o FuuroHai(Tail(fuuro))

\* The tiles finally_handle passes to check_count, in order.
VisibleHai(t) == t.menzen \o FuuroHai(t.fuuro)

RECURSIVE CheckCounts(_, _, _)
CheckCounts(machihai, items, i) ==
    IF i > Len(items) THEN machihai
    ELSE CheckCounts(check_count(machihai, items[i]), items, i + 1)

\* The fault of a count that is at most the number the tile pool holds.
finally_handle_yama(cond, t, yama) ==
    IF cond.error # "None" THEN cond
    ELSE LET machihai == CheckCounts(cond.machihai, VisibleHai(t), 1)
         IN [cond EXCEPT !.machihai =
                [k \in DOMAIN machihai |->
                    IF k \in DOMAIN yama THEN Min(machihai[k], yama[k])
                    ELSE machihai[k]]]

\* Condition::finally_handle; the tile pool is not read (`if let Some(_yama) = yama {}`).
finally_handle(cond, t, yama) ==
    IF cond.error # "None" THEN cond
    ELSE [cond EXCEPT !.machihai = CheckCounts(@, VisibleHai(t), 1)]

\* Condition::nokori
RECURSIVE SumCounts(_, _)
SumCounts(machihai, keys) ==
    IF keys = {} THEN 0
    ELSE LET k == CHOOSE k \in keys : TRUE
         IN machihai[k] + SumCounts(machihai, keys \ {k})

nokori(cond) == SumCounts(cond.machihai, DOMAIN cond.machihai)

-----------------------------------------------------------------------------
(* machi::analyze *)

\* The fault of candidates taken from the valid lone tiles of a Chiitoitsu
\* decomposer that has floating tiles too.
SutehaiOfValidTiles(d) ==
    Range(d.ukihai_vec)
        \cup (IF d.hourakei = "Chiitoitsu" THEN Range(d.valid_tile_vec) ELSE {})

\* The discard candidates: the floating tiles of the minimal decomposers and,
\* for a Chiitoitsu decomposer without floating tiles, its valid lone tiles.
SutehaiOf(d) ==
    Range(d.ukihai_vec)
        \cup (IF d.hourakei = "Chiitoitsu" /\ Len(d.ukihai_vec) = 0
              THEN Range(d.valid_tile_vec) ELSE {})

sutehai_set(decomposers_set) == UNION {SutehaiOf(d) : d \in decomposers_set}

\* The condition analyze builds for one discard candidate.
ConditionOf(sutehai, calculated, t, yama) ==
    finally_handle(
        HandleAll(NewCondition(sutehai, calculated.number, Len(t.menzen)),
                  calculated.decomposers),
        t, yama)

\* The fault of a comparison that is not reversed: fewer remaining tiles first.
ConditionBeforeAscending(lhs, rhs) ==
    IF nokori(lhs) = nokori(rhs) THEN lhs.sutehai < rhs.sutehai
    ELSE nokori(lhs) < nokori(rhs)

\* The comparison of sort_by: more remaining tiles first, then the smaller discard.
ConditionBefore(lhs, rhs) ==
    IF nokori(lhs) = nokori(rhs) THEN lhs.sutehai < rhs.sutehai
    ELSE nokori(lhs) > nokori(rhs)

\* Vec::sort_by: a stable sort, here by insertion from the left.
RECURSIVE InsertCondition(_, _)
InsertCondition(sorted, cond) ==
    IF sorted = <<>> THEN <<cond>>
    ELSE IF ConditionBefore(cond, Head(sorted)) THEN <<cond>> \o sorted
    ELSE <<Head(sorted)>> \o InsertCondition(Tail(sorted), cond)

\* conditions_vec is given as the set of its <<position, condition>> pairs; the
\* conditions are inserted in the order of their positions.
RECURSIVE sort_by(_)
sort_by(conditions_vec) ==
    IF conditions_vec = {} THEN <<>>
    ELSE LET last == CHOOSE c \in conditions_vec :
                         \A other \in conditions_vec : c[1] >= other[1]
         IN InsertCondition(sort_by(conditions_vec \ {last}), last[2])

\* The fault of an analysis that retains every condition.
RetainedAll(cond) == TRUE

\* `conditions_vec.retain(|cond| cond.nokori() > 0)`
Retained(cond) == nokori(cond) > 0

\* The order in which `for sutehai in sutehai_set` visits a HashSet is not
\* fixed: the candidates in ascending or in descending order are two of the
\* orders it can take.
RECURSIVE IterationOrder(_, _)
IterationOrder(set, order) ==
    IF set = {} THEN <<>>
    ELSE LET first == IF order = "ascending"
                      THEN CHOOSE x \in set : \A y \in set : x <= y
                      ELSE CHOOSE x \in set : \A y \in set : x >= y
         IN <<first>> \o IterationOrder(set \ {first}, order)

Ok(number, conditions_vec) ==
    [ok |-> TRUE, number |-> number, conditions |-> conditions_vec, error |-> "None"]

Err(error) == [ok |-> FALSE, number |-> 0, conditions |-> <<>>, error |-> error]

\* The fault of an analysis that looks for discard candidates before it looks
\* at the number: a complete hand has none.
AnalyzedCandidatesFirst(calculated, t, yama, order) ==
    LET candidates == IterationOrder(sutehai_set(calculated.decomposers), order)
        conditions_vec ==
            {<<i, ConditionOf(candidates[i], calculated, t, yama)>> :
                i \in 1..Len(candidates)}
        failed == {c \in conditions_vec : c[2].error # "None"}
        retained == {c \in conditions_vec : Retained(c[2])}
    IN IF candidates = <<>> THEN Err("No decomposer found")
       ELSE IF calculated.number = -1 THEN Ok(calculated.number, <<>>)
       ELSE IF failed # {}
       THEN Err((CHOOSE c \in failed : \A other \in failed : c[1] <= other[1])[2].error)
       ELSE Ok(calculated.number, sort_by(retained))

\* analyze, from the result of its call of shanten::calculate on.
Analyzed(calculated, t, yama, order) ==
    LET candidates == IterationOrder(sutehai_set(calculated.decomposers), order)
        conditions_vec ==
            {<<i, ConditionOf(candidates[i], calculated, t, yama)>> :
                i \in 1..Len(candidates)}
        failed == {c \in conditions_vec : c[2].error # "None"}
        retained == {c \in conditions_vec : Retained(c[2])}
    IN IF calculated.decomposers = {} THEN Err("No decomposer found")
       ELSE IF calculated.number = -1 THEN Ok(calculated.number, <<>>)
       ELSE IF calculated.number >= 0
       THEN IF failed # {}
            THEN Err((CHOOSE c \in failed : \A other \in failed : c[1] <= other[1])[2].error)
            ELSE Ok(calculated.number, sort_by(retained))
       ELSE Ok(calculated.number, <<>>)

analyze(t, yama, order) ==
    CHOOSE result \in {Analyzed(calculated, t, yama, order) :
                          calculated \in {calculate(t)}} : TRUE

-----------------------------------------------------------------------------
(* The hands *)

\* A hand holds at most MaxCopies tiles of a kind; a small hand has at most
\* MaxTiles concealed tiles, of the MaxRank upper ranks of Manzu, of 1m, 2m
\* and of the first honor, and at most MaxFuuro open melds.
MaxCopies == 4
MaxRank == 3
MaxTiles == 5
MaxFuuro == 1

Universe ==
    {Manzu(1), Manzu(2), Jihai(1)} \cup {Manzu(10 - r) : r \in 1..MaxRank}

RECURSIVE SumOver(_, _)
SumOver(count, kinds) ==
    IF kinds = {} THEN 0
    ELSE LET k == CHOOSE k \in kinds : TRUE
         IN count[k] + SumOver(count, kinds \ {k})

\* The sorted vector with count[k] tiles of each kind k.
RECURSIVE SortedHand(_, _)
SortedHand(count, kinds) ==
    IF kinds = {} THEN <<>>
    ELSE LET k == CHOOSE k \in kinds : \A other \in kinds : k <= other
         IN [i \in 1..count[k] |-> k] \o SortedHand(count, kinds \ {k})

\* The sorted hands of 3k+2 tiles, at most `most`, of the given kinds.
HandsOver(kinds, most) ==
    {SortedHand(count, kinds) :
        count \in {c \in [kinds -> 0..MaxCopies] :
                      /\ SumOver(c, kinds) <= most
                      /\ SumOver(c, kinds) % 3 = 2}}

\* The open melds a hand is given with.
Melds == {Juntsu(Manzu(7), Manzu(8), Manzu(9)), Koutsu(Jihai(1)), Kantsu(Manzu(2))}

RECURSIVE FuuroOf(_)
FuuroOf(n) ==
    IF n = 0 THEN {<<>>}
    ELSE FuuroOf(n - 1)
         \cup {Append(f, m) : f \in {g \in FuuroOf(n - 1) : Len(g) = n - 1}, m \in Melds}

\* One tile of the concealed part replaced by another: the hand after the
\* discard of sutehai and the draw of tsumo, sorted as parse sorts it.
Exchange(menzen, sutehai, tsumo) == SortInsert(remove_once(menzen, sutehai), tsumo)

\* A hand and the hands one exchange away from it.
Neighbours(menzen, draws) ==
    {menzen} \cup
    {h \in {Exchange(menzen, d, w) : d \in Range(menzen), w \in draws} :
        \A k \in Range(h) : Count(h, k) <= MaxCopies}

\* The hand with the given number of tiles of each of the given kinds.
Copies(kinds, n) == SortedHand([k \in kinds |-> n], kinds)

\* Thirteen orphans with a second 1m; two triplets, three pairs and two lone
\* tiles; three runs, a triplet and a pair; two suits of 112233 and a pair.
KokushimusouHand == SortInsert(YAOCHUUPAI, Manzu(1))
TripletsHand == <<1, 9, 31, 31, 31, 32, 32, 32, 33, 33, 34, 34, 35, 35>>
MentsuteHand == <<1, 2, 3, 11, 12, 13, 21, 22, 23, 31, 31, 31, 32, 32>>
RyanpeikouHand == <<1, 1, 2, 2, 3, 3, 11, 11, 12, 12, 13, 13, 31, 31>>

\* Seven pairs of seven of these kinds; a quad of one of them and five pairs.
PairKinds == {Manzu(1), Manzu(9), Pinzu(1), Pinzu(9), Jihai(1), Jihai(2), Jihai(3), Jihai(4)}

SevenPairsHands == {Copies(kinds, 2) : kinds \in {K \in SUBSET PairKinds : Cardinality(K) = 7}}

QuadHands ==
    {SortedHand([k \in PairKinds |-> IF k = quad THEN 4 ELSE IF k \in out THEN 0 ELSE 2],
                PairKinds) :
        quad \in {Manzu(1), Jihai(4)},
        out \in {O \in SUBSET {Manzu(9), Pinzu(1), Jihai(1)} : Cardinality(O) = 2}}

Draws == {Manzu(1), Manzu(5), Jihai(1), Jihai(5)}

Hands14 ==
    Neighbours(KokushimusouHand, Range(YAOCHUUPAI) \cup {Manzu(5)})
        \cup Neighbours(Copies(PairKinds \ {Jihai(4)}, 2), Draws)
        \cup Neighbours(TripletsHand, Draws)
        \cup SevenPairsHands \cup QuadHands
        \cup {MentsuteHand, RyanpeikouHand}

\* Eight tiles of which four are alike and begin a run: 7m7m7m7m8m9m with a
\* pair, with a partial run, with two lone tiles.
QuadRunHands ==
    {<<Manzu(7), Manzu(7), Manzu(7), Manzu(7), Manzu(8), Manzu(9), Jihai(1), Jihai(1)>>,
     <<Manzu(1), Manzu(2), Manzu(7), Manzu(7), Manzu(7), Manzu(7), Manzu(8), Manzu(9)>>,
     <<Manzu(7), Manzu(7), Manzu(7), Manzu(7), Manzu(8), Manzu(9), Jihai(1), Jihai(2)>>}

Tehai(menzen, fuuro) == [menzen |-> menzen, fuuro |-> fuuro]

Hands ==
    {Tehai(m, f) : m \in HandsOver(Universe, MaxTiles), f \in FuuroOf(MaxFuuro)}
        \cup {Tehai(m, <<>>) : m \in Hands14 \cup QuadRunHands}
        \cup {Tehai(m, <<Koutsu(Souzu(5))>>) :
                 m \in {KokushimusouHand, Copies(PairKinds \ {Jihai(4)}, 2)}}

-----------------------------------------------------------------------------
(* input::parse *)

\* A hand of which the concealed part is an error: Tehai::new(Err(error), fuuro).
TehaiErr(error, fuuro) == [error |-> error, fuuro |-> fuuro]

IsErr(t) == "error" \in DOMAIN t

\* The fault of a parser that keeps the concealed tiles as they were written.
AsWritten(vec) == vec

\* Vec::sort of the concealed tiles.
RECURSIVE Sorted(_)
Sorted(vec) == IF vec = <<>> THEN <<>> ELSE SortInsert(Sorted(Tail(vec)), Head(vec))

Digits == {"1", "2", "3", "4", "5", "6", "7", "8", "9"}

\* `*tile as u8 - 48`
DigitValue(ch) ==
    CASE ch = "1" -> 1 [] ch = "2" -> 2 [] ch = "3" -> 3 [] ch = "4" -> 4
      [] ch = "5" -> 5 [] ch = "6" -> 6 [] ch = "7" -> 7 [] ch = "8" -> 8
      [] ch = "9" -> 9

\* The tile push_into_hai_vec makes of a digit and a type character.
HaiOf(tile_type, tile) ==
    CASE tile_type = "m" -> Manzu(DigitValue(tile))
      [] tile_type = "p" -> Pinzu(DigitValue(tile))
      [] tile_type = "s" -> Souzu(DigitValue(tile))
      [] tile_type = "z" -> Jihai(DigitValue(tile))

\* push_into_hai_vec, for a stash that is not empty: the output with the
\* tiles of the stash pushed.
push_into_hai_vec(tile_type, stash, output) ==
    output \o [i \in 1..Len(stash) |-> HaiOf(tile_type, stash[i])]

\* The locals of parse before the first character.
ParseStart ==
    [menzen |-> <<>>, fuuro |-> <<>>, hai_stash |-> <<>>, menzen_stash |-> <<>>,
     on_mentsu |-> FALSE, error |-> "None"]

\* One turn of the loop over the characters. menzen_stash is cleared nowhere.
ParseChar(p, ch) ==
    IF ch \in {"m", "p", "s", "z"}
    THEN IF p.hai_stash = <<>> THEN [p EXCEPT !.error = "Unused type character"]
         ELSE IF p.on_mentsu
         THEN [p EXCEPT !.menzen_stash = push_into_hai_vec(ch, p.hai_stash, @),
                        !.hai_stash = <<>>]
         ELSE [p EXCEPT !.menzen = push_into_hai_vec(ch, p.hai_stash, @),
                        !.hai_stash = <<>>]
    ELSE IF ch \in Digits THEN [p EXCEPT !.hai_stash = Append(@, ch)]
    ELSE IF ch = "["
    THEN IF p.on_mentsu THEN [p EXCEPT !.error = "Second '[' found"]
         ELSE IF p.hai_stash # <<>> THEN [p EXCEPT !.error = "Need 'm' 'p' 's' 'z' but find '['"]
         ELSE [p EXCEPT !.on_mentsu = TRUE]
    ELSE IF ch = "]"
    THEN IF ~p.on_mentsu THEN [p EXCEPT !.error = "Unmatched ']' found"]
         ELSE IF p.hai_stash # <<>> THEN [p EXCEPT !.error = "Need 'm' 'p' 's' 'z' but find ']'"]
         ELSE IF check_mentsu(p.menzen_stash) = NoMentsu
         THEN [p EXCEPT !.error = "Not a valid meld"]
         ELSE [p EXCEPT !.fuuro = Append(@, check_mentsu(p.menzen_stash)),
                        !.on_mentsu = FALSE]
    ELSE IF ch = " " THEN p
    ELSE [p EXCEPT !.error = "Unknown character"]

\* The loop over the characters, from the id-th on; it ends at the first error.
RECURSIVE ParseChars(_, _, _)
ParseChars(p, string, id) ==
    IF id > Len(string) \/ p.error # "None" THEN p
    ELSE ParseChars(ParseChar(p, string[id]), string, id + 1)

\* The fault of a parser that takes any number of concealed tiles.
parse_any_number(string) ==
    LET p == ParseChars(ParseStart, string, 1)
    IN IF p.error # "None" THEN TehaiErr(p.error, p.fuuro)
       ELSE Tehai(Sorted(p.menzen), p.fuuro)

\* input::parse
parse(string) ==
    LET p == ParseChars(ParseStart, string, 1)
    IN IF p.error # "None" THEN TehaiErr(p.error, p.fuuro)
       ELSE IF Len(p.menzen) % 3 # 2 THEN TehaiErr("The number of tiles on hand must be 3*k+2", p.fuuro)
       ELSE Tehai(Sorted(p.menzen), p.fuuro)

-----------------------------------------------------------------------------
(* The state machine *)

NoResult == [ok |-> FALSE, number |-> 0, error |-> "not run"]

\* No exchange yet; after one, the discard, the draw, and the hand and its
\* number before it.
NoExchange == [sutehai |-> None, tsumo |-> None]

\* The hand is given as a Tehai, not as a notation.
NoString == <<>>

\* No call of input::check_mentsu apart from the parser's.
NoMentsuCheck == given = <<>> /\ meld = NoMentsu

\* shanten::split is taken as a whole, within shanten::calculate.
NoSearch == search = <<>>

\* No pool of tiles: machi::analyze is called with yama: None, written <<>>.
NoHaiyama == haiyama = <<>> /\ haiyama_op = <<>>

\* shanten::calculate, from `tehai.menzen.as_ref()?` on.
TryCalculate(t) ==
    IF IsErr(t) THEN [ok |-> FALSE, number |-> 0, error |-> t.error]
    ELSE [ok |-> TRUE] @@ calculate(t)

\* machi::analyze, from `shanten::calculate(tehai)?` on.
TryAnalyze(t, yama, order) ==
    IF IsErr(t) THEN Err(t.error) ELSE analyze(t, yama, order)

Init ==
    /\ notation = NoString
    /\ pc = "hand"
    /\ tehai \in Hands
    /\ shanten = NoResult
    /\ conditions = NoResult
    /\ exchange = NoExchange
    /\ NoMentsuCheck
    /\ NoHaiyama
    /\ NoSearch

\* shanten::calculate on the hand.
Calculate ==
    /\ pc = "hand"
    /\ shanten' = TryCalculate(tehai)
    /\ pc' = "calculated"
    /\ UNCHANGED <<notation, tehai, conditions, exchange, given, meld, haiyama, haiyama_op, search>>

\* machi::analyze on the hand, with the tile pool if there is one.
Analyze ==
    /\ pc = "calculated"
    /\ \E order \in {"ascending", "descending"} :
           conditions' = TryAnalyze(tehai, haiyama, order)
    /\ pc' = "analyzed"
    /\ UNCHANGED <<notation, tehai, shanten, exchange, given, meld, haiyama, haiyama_op, search>>

Next == Calculate \/ Analyze

Spec == Init /\ [][Next]_vars

-----------------------------------------------------------------------------
(* The hand parsed from a notation *)

\* A notation is made of at most MaxSegments of these pieces: concealed
\* tiles in and out of order, an honor tile of rank 8, bracketed melds and
\* bracketed tiles that are no meld, a space, and characters out of place.
MaxSegments == 3

Segments ==
    {<<"1", "m">>, <<"2", "1", "m">>, <<"1", "1", "z">>, <<"8", "z">>,
     <<"[", "3", "1", "2", "m", "]">>, <<"[", "1", "1", "1", "z", "]">>,
     <<"[", "2", "2", "2", "2", "m", "]">>, <<"[", "8", "8", "8", "z", "]">>,
     <<" ">>, <<"x">>, <<"[">>, <<"]">>, <<"m">>, <<"1">>}

RECURSIVE NotationsOf(_)
NotationsOf(n) ==
    IF n = 0 THEN {<<>>}
    ELSE NotationsOf(n - 1)
         \cup {s \o segment : s \in {t \in NotationsOf(n - 1) : TRUE}, segment \in Segments}

Notations == NotationsOf(MaxSegments)

NoTehai == [error |-> "not parsed", fuuro |-> <<>>]

InitParse ==
    /\ notation \in Notations
    /\ pc = "string"
    /\ tehai = NoTehai
    /\ shanten = NoResult
    /\ conditions = NoResult
    /\ exchange = NoExchange
    /\ NoMentsuCheck
    /\ NoHaiyama
    /\ NoSearch

\* input::parse on the notation.
Parse ==
    /\ pc = "string"
    /\ tehai' = parse(notation)
    /\ pc' = "hand"
    /\ UNCHANGED <<notation, shanten, conditions, exchange, given, meld, haiyama, haiyama_op, search>>

NextParse == Parse \/ Calculate \/ Analyze

SpecParse == InitParse /\ [][NextParse]_vars

-----------------------------------------------------------------------------
(* The classification of a list of tiles *)

\* The lists of at most MaxMeldTiles tiles of these kinds: three consecutive
\* ranks of one suit, a tile of another suit, three honor tiles and an honor
\* tile of rank 8.
MaxMeldTiles == 5

MeldUniverse ==
    {Manzu(1), Manzu(2), Manzu(3), Pinzu(2), Jihai(1), Jihai(2), Jihai(3), Jihai(8)}

HaiVecs ==
    UNION {[1..n -> MeldUniverse] : n \in 0..MaxMeldTiles}

InitMentsu ==
    /\ given \in HaiVecs
    /\ meld = NoMentsu
    /\ pc = "tiles"
    /\ notation = NoString
    /\ tehai = NoTehai
    /\ shanten = NoResult
    /\ conditions = NoResult
    /\ exchange = NoExchange
    /\ NoHaiyama
    /\ NoSearch

\* input::check_mentsu on the tiles.
CheckMentsu ==
    /\ pc = "tiles"
    /\ meld' = check_mentsu(given)
    /\ pc' = "classified"
    /\ UNCHANGED <<notation, tehai, shanten, conditions, exchange, given, haiyama, haiyama_op, search>>

NextMentsu == CheckMentsu

SpecMentsu == InitMentsu /\ [][NextMentsu]_vars

-----------------------------------------------------------------------------
(* Haiyama: the pool of tiles *)

\* The kinds of tiles of the pool (Hai::all_type), bounded: the first
\* MaxKinds kinds.
MaxKinds == 3

all_type == {Manzu(r) : r \in 1..MaxKinds}

\* Haiyama::new
NewHaiyama == [hai \in all_type |-> 4]

\* The fault of an add without limit.
add_without_limit(map, hai) ==
    [map |-> [map EXCEPT ![hai] = map[hai] + 1], ok |-> TRUE]

\* Haiyama::add: the map after the call, and whether it returned Ok.
add(map, hai) ==
    LET number == map[hai]
    IN IF number < 4
       THEN [map |-> [map EXCEPT ![hai] = number + 1], ok |-> TRUE]
       ELSE [map |-> map, ok |-> FALSE]

\* The fault of a discard that does not look at the number: an u8 below 0
\* wraps around.
discard_unchecked(map, hai) ==
    [map |-> [map EXCEPT ![hai] = (map[hai] + 255) % 256], ok |-> TRUE]

\* Haiyama::discard: the map after the call, and whether it returned Ok.
discard(map, hai) ==
    LET number == map[hai]
    IN IF number > 0
       THEN [map |-> [map EXCEPT ![hai] = number - 1], ok |-> TRUE]
       ELSE [map |-> map, ok |-> FALSE]

Operation(kind, hai, before, ok) ==
    [kind |-> kind, hai |-> hai, before |-> before, ok |-> ok]

InitHaiyama ==
    /\ haiyama = NewHaiyama
    /\ haiyama_op = Operation("new", None, NewHaiyama, TRUE)
    /\ pc = "pool"
    /\ notation = NoString
    /\ tehai = NoTehai
    /\ shanten = NoResult
    /\ conditions = NoResult
    /\ exchange = NoExchange
    /\ NoMentsuCheck
    /\ NoSearch

\* Haiyama::add of one tile.
Add ==
    /\ pc = "pool"
    /\ \E hai \in all_type :
           LET added == add(haiyama, hai)
           IN /\ haiyama' = added.map
              /\ haiyama_op' = Operation("add", hai, haiyama, added.ok)
    /\ UNCHANGED <<notation, pc, tehai, shanten, conditions, exchange, given, meld, search>>

\* Haiyama::discard of one tile.
Discard ==
    /\ pc = "pool"
    /\ \E hai \in all_type :
           LET discarded == discard(haiyama, hai)
           IN /\ haiyama' = discarded.map
              /\ haiyama_op' = Operation("discard", hai, haiyama, discarded.ok)
    /\ UNCHANGED <<notation, pc, tehai, shanten, conditions, exchange, given, meld, search>>

NextHaiyama == Add \/ Discard

SpecHaiyama == InitHaiyama /\ [][NextHaiyama]_vars

-----------------------------------------------------------------------------
(* shanten::split, call after call *)

SplitHands ==
    {Tehai(m, <<>>) :
        m \in HandsOver(Universe, MaxTiles) \cup QuadRunHands \cup {MentsuteHand}}

\* `split(tehai, &mut decomposers_vec, &mut Decomposer::new(), 0)`
InitSplit ==
    /\ tehai \in SplitHands
    /\ search = [stack |-> <<Call(tehai.menzen, NewDecomposer, 0, Len(tehai.menzen))>>,
                 decomposers_vec |-> <<>>,
                 returned |-> 0]
    /\ pc = "split"
    /\ notation = NoString
    /\ shanten = NoResult
    /\ conditions = NoResult
    /\ exchange = NoExchange
    /\ NoMentsuCheck
    /\ NoHaiyama

\* The next call of split runs up to its own calls: it pushes a decomposer
\* and returns, or its calls come next, the first of them first.
SplitCall ==
    /\ pc = "split"
    /\ search.stack # <<>>
    /\ LET call == Head(search.stack)
       IN search' = [stack |-> Calls(call) \o Tail(search.stack),
                     decomposers_vec |-> search.decomposers_vec \o PushedBy(call),
                     returned |-> search.returned
                                      + (IF Len(call.menzen_vec) <= 1 THEN 1 ELSE 0)]
    /\ UNCHANGED <<notation, pc, tehai, shanten, conditions, exchange,
                   given, meld, haiyama, haiyama_op>>

NextSplit == SplitCall

\* Every call that is due is run.
SpecSplit == InitSplit /\ [][NextSplit]_vars /\ WF_vars(SplitCall)

-----------------------------------------------------------------------------
(* The analysis with a tile pool *)

\* The full pool, the pool with one copy of the first kind, the empty pool,
\* and no pool.
Pools ==
    {NewHaiyama,
     [hai \in all_type |-> IF hai = Manzu(1) THEN 1 ELSE 4],
     [hai \in all_type |-> 0],
     <<>>}

YamaHands ==
    {Tehai(m, f) : m \in HandsOver(Universe, MaxTiles), f \in FuuroOf(MaxFuuro)}
        \cup {Tehai(m, <<>>) : m \in QuadRunHands \cup {TripletsHand, KokushimusouHand}}

InitYama ==
    /\ tehai \in YamaHands
    /\ haiyama \in Pools
    /\ haiyama_op = <<>>
    /\ pc = "hand"
    /\ notation = NoString
    /\ shanten = NoResult
    /\ conditions = NoResult
    /\ exchange = NoExchange
    /\ NoMentsuCheck
    /\ NoSearch

NextYama == Calculate \/ Analyze

SpecYama == InitYama /\ [][NextYama]_vars

-----------------------------------------------------------------------------
(* The hand after a discard and a draw *)

\* The tiles drawn, besides the wait tiles of the discard.
TsumoKinds == Universe \cup Range(YAOCHUUPAI) \cup Draws

\* The hands exchanges are made from: the small hands, the hands one tile from
\* the thirteen orphans, and hands of pairs and triplets.
TsumoHands ==
    {t \in Hands : Len(t.menzen) <= MaxTiles}
        \cup {Tehai(m, <<>>) :
                 m \in Neighbours(KokushimusouHand, Range(YAOCHUUPAI) \cup {Manzu(5)})
                        \cup {TripletsHand, Copies(PairKinds \ {Jihai(4)}, 2)}}

\* The wait tiles machi::analyze returned for a discard.
MachihaiOf(result, sutehai) ==
    UNION {DOMAIN result.conditions[i].machihai :
              i \in {j \in DOMAIN result.conditions :
                         result.conditions[j].sutehai = sutehai}}

InitTsumo == Init /\ tehai \in TsumoHands

\* One concealed tile is discarded and a tile of which a copy is left is
\* drawn; shanten::calculate is called on the new hand. `conditions` stays
\* the analysis of the hand before the exchange.
TsumoKiri ==
    /\ pc = "analyzed"
    /\ shanten.ok /\ shanten.number >= 0
    /\ \E sutehai \in Range(tehai.menzen) :
           \E tsumo \in TsumoKinds \cup MachihaiOf(conditions, sutehai) :
               /\ Count(VisibleHai(tehai), tsumo) < 4
               /\ tehai' = Tehai(Exchange(tehai.menzen, sutehai, tsumo), tehai.fuuro)
               /\ exchange' = [sutehai |-> sutehai, tsumo |-> tsumo,
                               tehai |-> tehai, number |-> shanten.number]
    /\ shanten' = [ok |-> TRUE] @@ calculate(tehai')
    /\ pc' = "exchanged"
    /\ UNCHANGED <<notation, conditions, given, meld, haiyama, haiyama_op, search>>

NextTsumo == Calculate \/ Analyze \/ TsumoKiri

SpecTsumo == InitTsumo /\ [][NextTsumo]_vars

-----------------------------------------------------------------------------
(* The reference distances *)

Max(a, b) == IF a > b THEN a ELSE b

Minimum(numbers) == CHOOSE n \in numbers : \A other \in numbers : n <= other

\* The numbers <<groups, pairs, partial runs>> of every partition of a sorted
\* vector into runs, triplets, pairs, partial runs and floating tiles. The
\* group of the smallest tile is chosen first; a partial run of two tiles one
\* rank apart or two ranks apart is always allowed; `paired` is the kind of
\* the last pair, which is not paired again.
RECURSIVE Partitions(_, _)
Partitions(menzen_vec, paired) ==
    IF menzen_vec = <<>> THEN {<<0, 0, 0>>}
    ELSE LET current == menzen_vec[1]
             rest == Tail(menzen_vec)
             one == HaiNext(current)
             two == IF one = None THEN None ELSE HaiNext(one)
             hasOne == one # None /\ Contains(rest, one)
             hasTwo == two # None /\ Contains(rest, two)
         IN Partitions(rest, paired)
            \cup (IF Count(rest, current) >= 1 /\ current # paired
                  THEN {<<c[1], c[2] + 1, c[3]>> :
                           c \in Partitions(remove_once(rest, current), current)}
                  ELSE {})
            \cup (IF Count(rest, current) >= 2
                  THEN {<<c[1] + 1, c[2], c[3]>> :
                           c \in Partitions(remove_once(remove_once(rest, current),
                                                        current), paired)}
                  ELSE {})
            \cup (IF hasOne /\ hasTwo
                  THEN {<<c[1] + 1, c[2], c[3]>> :
                           c \in Partitions(remove_once(remove_once(rest, one), two),
                                            paired)}
                  ELSE {})
            \cup (IF hasOne
                  THEN {<<c[1], c[2], c[3] + 1>> :
                           c \in Partitions(remove_once(rest, one), paired)}
                  ELSE {})
            \cup (IF hasTwo
                  THEN {<<c[1], c[2], c[3] + 1>> :
                           c \in Partitions(remove_once(rest, two), paired)}
                  ELSE {})

\* The standard formula: of the (n + 1) / 3 blocks a hand of n tiles needs,
\* every group is worth two, and a pair or a partial run one; one block is
\* kept for a pair.
StandardDistance(groups, pairs, partials, n) ==
    LET blocks == (n + 1) \div 3
        countedPartials == Min(partials, blocks - 1 - groups)
        countedPairs == Min(pairs, blocks - groups - countedPartials)
    IN 2 * (n \div 3) - 2 * groups - countedPartials - countedPairs

\* The seven-pairs distance: six, less the kinds held twice, plus the kinds
\* missing from seven.
SevenPairsDistance(menzen_vec) ==
    LET kinds == Range(menzen_vec)
        pairs == {k \in kinds : Count(menzen_vec, k) >= 2}
    IN 6 - Cardinality(pairs) + Max(0, 7 - Cardinality(kinds))

\* The thirteen-orphans distance: 13 less the terminal and honor kinds held,
\* less one if one of them is held twice.
ThirteenOrphansDistance(menzen_vec) ==
    LET kinds == Range(menzen_vec) \cap Range(YAOCHUUPAI)
    IN 13 - Cardinality(kinds)
          - (IF \E k \in kinds : Count(menzen_vec, k) >= 2 THEN 1 ELSE 0)

TrueMinimum(t) ==
    LET n == Len(t.menzen)
    IN Minimum({StandardDistance(c[1], c[2], c[3], n) : c \in Partitions(t.menzen, None)}
               \cup (IF n = 14 /\ t.fuuro = <<>>
                     THEN {SevenPairsDistance(t.menzen),
                           ThirteenOrphansDistance(t.menzen)}
                     ELSE {}))

-----------------------------------------------------------------------------
(* The claims *)

\* C1: the distance shanten::calculate returns for a hand of 2, 5, 8, 11 or
\* 14 concealed tiles is the minimum of the standard formula over every
\* partition of the concealed tiles, one-gap partial runs with their middle
\* tile elsewhere in the hand included, and of the seven-pairs and
\* thirteen-orphans distances for 14 concealed tiles and no open group.
C1_TrueMinimum ==
    pc = "calculated" => shanten.number = TrueMinimum(tehai)

\* A calculated hand, not complete, that holds three tiles in a row: split
\* leaves out the one-gap partial run of the first and the third of them.
C1_Witness ==
    /\ pc = "calculated"
    /\ shanten.number >= 0
    /\ shanten.number = TrueMinimum(tehai)
    /\ \E hai \in Range(tehai.menzen) :
           /\ ~IsJihai(hai) /\ Rank(hai) <= 7
           /\ Contains(tehai.menzen, hai + 1)
           /\ Contains(tehai.menzen, hai + 2)
           /\ ~KanchanBranch(tehai.menzen, hai + 1, hai + 2)

\* C4: every decomposer of a hand of n concealed tiles accounts for n tiles:
\* three for a group, two for a pair or a partial run and one for a floating
\* tile in every decomposer split pushed, minimal or not; two for a pair and
\* one for a floating or a lone tile in the Chiitoitsu decomposer; one for a
\* valid or a floating tile in the Kokushimusou decomposer. A group added by
\* a sibling branch would be counted over n.
TileNumber(d) ==
    3 * Len(d.mentsu_vec) + 2 * Len(d.toitsu_vec) + 2 * Len(d.taatsu_vec)
        + Len(d.ukihai_vec) + Len(d.valid_tile_vec)

C4_TilesAccounted ==
    pc = "calculated" =>
        /\ \A d \in Range(MentsuteDecomposers(tehai)) :
               /\ TileNumber(d) = Len(tehai.menzen)
               /\ d.valid_tile_vec = <<>>
        /\ SpecialHourakei(tehai) =>
               /\ TileNumber(ChiitoitsuDecomposer(tehai.menzen)) = 14
               /\ ChiitoitsuDecomposer(tehai.menzen).mentsu_vec = <<>>
               /\ ChiitoitsuDecomposer(tehai.menzen).taatsu_vec = <<>>
               /\ TileNumber(KokushimusouDecomposer(tehai.menzen)) = 14
               /\ Len(KokushimusouDecomposer(tehai.menzen).valid_tile_vec)
                      + Len(KokushimusouDecomposer(tehai.menzen).ukihai_vec) = 14
        /\ \A d \in shanten.decomposers : TileNumber(d) = Len(tehai.menzen)

\* A calculated 14-tile hand whose search branched on a pair, a triplet, a
\* partial run and a run, and pushed decomposers that are not minimal.
C4_Witness ==
    /\ pc = "calculated"
    /\ SpecialHourakei(tehai)
    /\ \E d \in Range(MentsuteDecomposers(tehai)) :
           /\ d \notin shanten.decomposers
           /\ d.toitsu_vec # <<>> /\ d.taatsu_vec # <<>> /\ d.ukihai_vec # <<>>
           /\ \E i, j \in DOMAIN d.mentsu_vec :
                  d.mentsu_vec[i][1] = "Juntsu" /\ d.mentsu_vec[j][1] = "Koutsu"

\* The copies of a tile an open meld shows: a run one of each of its three
\* tiles, a triplet three, a quad four.
MeldCopies(mentsu, hai) ==
    IF mentsu[1] = "Juntsu" THEN Cardinality({i \in 2..4 : mentsu[i] = hai})
    ELSE IF mentsu[2] # hai THEN 0
    ELSE IF mentsu[1] = "Koutsu" THEN 3
    ELSE 4

RECURSIVE FuuroCopies(_, _)
FuuroCopies(fuuro, hai) ==
    IF fuuro = <<>> THEN 0
    ELSE MeldCopies(Head(fuuro), hai) + FuuroCopies(Tail(fuuro), hai)

\* The copies of a tile visible in the concealed tiles and the open melds.
VisibleCopies(t, hai) == Count(t.menzen, hai) + FuuroCopies(t.fuuro, hai)

\* The waits of a discard before finally_handle counted the visible tiles.
WaitsOf(sutehai) ==
    DOMAIN HandleAll(NewCondition(sutehai, shanten.number, Len(tehai.menzen)),
                     shanten.decomposers).machihai

\* C5: without a tile pool, the count of every wait tile of every returned
\* condition is 4 less the copies of the tile visible in the concealed tiles
\* and the open melds, and is between 1 and 4; a wait tile of which 4 or more
\* copies are visible is not in the map.
C5_RemainingCount ==
    pc = "analyzed" /\ conditions.ok =>
        \A i \in DOMAIN conditions.conditions :
            LET cond == conditions.conditions[i]
            IN /\ \A hai \in DOMAIN cond.machihai :
                      /\ cond.machihai[hai] = 4 - VisibleCopies(tehai, hai)
                      /\ cond.machihai[hai] \in 1..4
               /\ \A hai \in WaitsOf(cond.sutehai) :
                      VisibleCopies(tehai, hai) >= 4 => hai \notin DOMAIN cond.machihai

\* An analyzed hand with an open meld and a condition with two wait tiles:
\* of one, the meld and the concealed tiles show three copies and one is
\* left; of the other, more are left.
C5_Witness ==
    /\ pc = "analyzed" /\ conditions.ok
    /\ tehai.fuuro # <<>>
    /\ \E i \in DOMAIN conditions.conditions :
           LET cond == conditions.conditions[i]
           IN \E hai, other \in DOMAIN cond.machihai :
                  /\ cond.machihai[hai] = 1
                  /\ FuuroCopies(tehai.fuuro, hai) > 0
                  /\ Count(tehai.menzen, hai) > 0
                  /\ cond.machihai[other] > 1

\* The least number of the standard pattern over the decomposers split pushed.
MentsuteMinimum(t) ==
    Minimum({shanten_number_Mentsute(d, Len(t.menzen)) :
                d \in Range(MentsuteDecomposers(t))})

\* C6: for a hand that has not 14 concealed tiles or has an open meld, every
\* decomposer shanten::calculate returns is of the standard pattern and the
\* number returned is the least number of the standard pattern.
C6_OnlyMentsute ==
    pc = "calculated" /\ (Len(tehai.menzen) # 14 \/ tehai.fuuro # <<>>) =>
        /\ \A d \in shanten.decomposers : d.hourakei = "Mentsute"
        /\ shanten.number = MentsuteMinimum(tehai)

\* A calculated hand of 14 concealed tiles with an open meld, complete as
\* thirteen orphans or seven pairs but for the meld.
C6_Witness ==
    /\ pc = "calculated"
    /\ Len(tehai.menzen) = 14 /\ tehai.fuuro # <<>>
    /\ shanten.number > 0
    /\ Min(SevenPairsDistance(tehai.menzen), ThirteenOrphansDistance(tehai.menzen)) = -1

SevenPairs(t) ==
    /\ Len(t.menzen) = 14 /\ t.fuuro = <<>>
    /\ \A hai \in Range(t.menzen) : Count(t.menzen, hai) = 2

QuadAndFivePairs(t) ==
    /\ Len(t.menzen) = 14 /\ t.fuuro = <<>>
    /\ \E quad \in Range(t.menzen) :
           /\ Count(t.menzen, quad) = 4
           /\ \A hai \in Range(t.menzen) \ {quad} : Count(t.menzen, hai) = 2

\* C7: for 14 concealed tiles that are 7 pairs of 7 kinds and no open meld,
\* the Chiitoitsu decomposer has 7 pairs, no lone and no floating tile,
\* shanten::calculate returns -1 and that decomposer is in the set it
\* returns; with four tiles of one kind and five other pairs the Chiitoitsu
\* number is 1.
C7_SevenPairs ==
    pc = "calculated" =>
        /\ SevenPairs(tehai) =>
               /\ Len(ChiitoitsuDecomposer(tehai.menzen).toitsu_vec) = 7
               /\ ChiitoitsuDecomposer(tehai.menzen).valid_tile_vec = <<>>
               /\ ChiitoitsuDecomposer(tehai.menzen).ukihai_vec = <<>>
               /\ shanten.number = -1
               /\ ChiitoitsuDecomposer(tehai.menzen) \in shanten.decomposers
        /\ QuadAndFivePairs(tehai) =>
               shanten_number(ChiitoitsuDecomposer(tehai.menzen), 14) = 1

\* A calculated hand of seven pairs that is complete in the standard pattern
\* as well: both kinds of decomposer are returned.
C7_Witness ==
    /\ pc = "calculated"
    /\ SevenPairs(tehai)
    /\ shanten.number = -1
    /\ \E d \in shanten.decomposers : d.hourakei = "Chiitoitsu"
    /\ \E d \in shanten.decomposers : d.hourakei = "Mentsute"

ThirteenOrphans(t) ==
    /\ Len(t.menzen) = 14 /\ t.fuuro = <<>>
    /\ Range(t.menzen) = Range(YAOCHUUPAI)

\* C8: for 14 concealed tiles and no open meld the Kokushimusou number is 13
\* less the terminal and honor kinds held and less one if one of them is held
\* twice; for the 13 terminal and honor tiles and a second tile of any of
\* them it is -1, and shanten::calculate returns -1.
C8_ThirteenOrphans ==
    pc = "calculated" /\ Len(tehai.menzen) = 14 /\ tehai.fuuro = <<>> =>
        /\ shanten_number(KokushimusouDecomposer(tehai.menzen), 14)
               = ThirteenOrphansDistance(tehai.menzen)
        /\ ThirteenOrphans(tehai) =>
               /\ shanten_number(KokushimusouDecomposer(tehai.menzen), 14) = -1
               /\ shanten.number = -1

\* A calculated hand of the thirteen orphans with a second tile that is the
\* last of them.
C8_Witness ==
    /\ pc = "calculated"
    /\ ThirteenOrphans(tehai)
    /\ Count(tehai.menzen, Jihai(7)) = 2
    /\ shanten.number = -1

\* C9: machi::analyze returns Ok with the number shanten::calculate returns
\* for the hand, and with no condition when that number is -1.
C9_AnalyzeNumber ==
    pc = "analyzed" =>
        /\ conditions.ok
        /\ conditions.number = shanten.number
        /\ shanten.number = -1 => conditions.conditions = <<>>

\* An analyzed hand of groups and a pair, complete in the standard pattern.
C9_Witness ==
    /\ pc = "analyzed"
    /\ Len(tehai.menzen) = 14
    /\ shanten.number = -1
    /\ \E d \in shanten.decomposers :
           d.hourakei = "Mentsute" /\ Len(d.mentsu_vec) = 4 /\ Len(d.toitsu_vec) = 1
    /\ conditions = Ok(-1, <<>>)

\* C10: the conditions machi::analyze returns are in descending order of the
\* sum of their counts and, for equal sums, in ascending order of their
\* discards; no two of them have the same discard.
C10_Sorted ==
    pc = "analyzed" /\ conditions.ok =>
        \A i, j \in DOMAIN conditions.conditions :
            i < j =>
                LET lhs == conditions.conditions[i]
                    rhs == conditions.conditions[j]
                IN /\ lhs.sutehai # rhs.sutehai
                   /\ nokori(lhs) >= nokori(rhs)
                   /\ nokori(lhs) = nokori(rhs) => lhs.sutehai < rhs.sutehai

\* An analyzed hand with two conditions of the same sum after one of a
\* greater sum.
C10_Witness ==
    /\ pc = "analyzed" /\ conditions.ok
    /\ Len(conditions.conditions) >= 3
    /\ nokori(conditions.conditions[1]) > nokori(conditions.conditions[2])
    /\ nokori(conditions.conditions[2]) = nokori(conditions.conditions[3])

\* The draw of the exchange is a wait tile of the condition of its discard.
Waited == exchange.tsumo \in MachihaiOf(conditions, exchange.sutehai)

\* C2: for a hand of number s >= 0, the hand with one copy of the discard of
\* a returned condition replaced by one of its wait tiles has a number below
\* s.
C2_WaitsSound ==
    pc = "exchanged" /\ Waited => shanten.number < exchange.number

\* C3: for a hand of number s >= 0, a concealed tile d and a tile w of which
\* fewer than 4 copies are visible, if the hand with one d replaced by one w
\* has a number below s, machi::analyze returned a condition of discard d
\* with w among its wait tiles.
C3_WaitsComplete ==
    pc = "exchanged" /\ exchange.number >= 0
        /\ VisibleCopies(exchange.tehai, exchange.tsumo) < 4
        /\ shanten.number < exchange.number
    => Waited

\* The discards of the conditions machi::analyze returned.
Discards == {conditions.conditions[i].sutehai : i \in DOMAIN conditions.conditions}

\* C11: no condition machi::analyze returns has an empty wait map, a sum of
\* counts of zero or a count of 0; a discard candidate of which every wait
\* tile has its four copies visible in the hand and the open melds is not
\* among the conditions.
C11_NoEmptyWaits ==
    pc = "analyzed" /\ conditions.ok =>
        /\ \A i \in DOMAIN conditions.conditions :
               LET cond == conditions.conditions[i]
               IN /\ DOMAIN cond.machihai # {}
                  /\ nokori(cond) > 0
                  /\ \A hai \in DOMAIN cond.machihai : cond.machihai[hai] # 0
        /\ \A sutehai \in sutehai_set(shanten.decomposers) :
               (\A hai \in WaitsOf(sutehai) : VisibleCopies(tehai, hai) >= 4)
                   => sutehai \notin Discards

\* An analyzed hand with a discard candidate that has wait tiles, all of them
\* fully visible, and is dropped, next to a candidate that is returned.
C11_Witness ==
    /\ pc = "analyzed" /\ conditions.ok
    /\ Discards # {}
    /\ \E sutehai \in sutehai_set(shanten.decomposers) \ Discards :
           /\ WaitsOf(sutehai) # {}
           /\ \A hai \in WaitsOf(sutehai) : VisibleCopies(tehai, hai) >= 4

\* Every decomposer shanten::calculate computes the number of.
AllDecomposers(t) ==
    Range(MentsuteDecomposers(t))
        \cup (IF SpecialHourakei(t)
              THEN {ChiitoitsuDecomposer(t.menzen), KokushimusouDecomposer(t.menzen)}
              ELSE {})

\* C12: for a hand of 2, 5, 8, 11 or 14 concealed tiles, shanten::calculate
\* returns Ok with a set of decomposers that is not empty and of which every
\* member has the number returned, machi::analyze returns Ok, no call of
\* handle returns an error, and no subtraction of unsigned numbers in
\* shanten_number or handle goes below zero.
C12_Total ==
    /\ pc = "calculated" =>
           /\ shanten.ok
           /\ shanten.decomposers # {}
           /\ \A d \in shanten.decomposers :
                  shanten_number(d, Len(tehai.menzen)) = shanten.number
           /\ \A d \in AllDecomposers(tehai) :
                  ~shanten_number_underflow(d, Len(tehai.menzen))
    /\ pc = "analyzed" =>
           /\ conditions.ok
           /\ conditions.error = "None"
           /\ \A sutehai \in sutehai_set(shanten.decomposers) :
                  \A d \in shanten.decomposers :
                      LET cond == NewCondition(sutehai, shanten.number, Len(tehai.menzen))
                      IN HandleError(cond, d) = "None" /\ ~handle_underflow(cond, d)

\* A calculated hand of seven pairs: the Chiitoitsu decomposer is below the
\* numbers of the Mentsute decomposers, that were in the set before it.
C12_Witness ==
    /\ pc = "calculated"
    /\ SevenPairs(tehai)
    /\ shanten.ok
    /\ MentsuteMinimum(tehai) > shanten.number
    /\ shanten.decomposers = {ChiitoitsuDecomposer(tehai.menzen)}

-----------------------------------------------------------------------------
(* Notations *)

TypeCharacters == {"m", "p", "s", "z"}

\* The characters of a notation that stand outside brackets.
RECURSIVE OutsideFrom(_, _, _)
OutsideFrom(string, id, inside) ==
    IF id > Len(string) THEN <<>>
    ELSE IF string[id] = "[" THEN OutsideFrom(string, id + 1, TRUE)
    ELSE IF string[id] = "]" THEN OutsideFrom(string, id + 1, FALSE)
    ELSE IF inside THEN OutsideFrom(string, id + 1, inside)
    ELSE <<string[id]>> \o OutsideFrom(string, id + 1, inside)

Outside(string) == OutsideFrom(string, 1, FALSE)

\* The number of concealed tiles a notation writes: the digits outside
\* brackets that a type character follows.
ConcealedNumber(string) ==
    LET outside == Outside(string)
    IN Cardinality({i \in 1..Len(outside) :
           /\ outside[i] \in Digits
           /\ \E j \in (i + 1)..Len(outside) : outside[j] \in TypeCharacters})

WrongNumber == "The number of tiles on hand must be 3*k+2"

\* C13: a notation whose number of concealed tiles is not 3k+2 parses to a
\* hand whose concealed part is an error (the error about the number when
\* the notation has no other fault); the distance calculation and the
\* analysis both return that error, with no decomposition and no condition.
C13_WrongNumber ==
    (pc # "string" /\ ConcealedNumber(notation) % 3 # 2) =>
        /\ IsErr(tehai)
        /\ ParseChars(ParseStart, notation, 1).error = "None" => tehai.error = WrongNumber
        /\ pc \in {"calculated", "analyzed"} =>
               shanten = [ok |-> FALSE, number |-> 0, error |-> tehai.error]
        /\ pc = "analyzed" =>
               /\ ~conditions.ok
               /\ conditions.error = tehai.error
               /\ conditions.conditions = <<>>

\* Three concealed tiles and a meld, analysed.
C13_Witness ==
    /\ pc = "analyzed"
    /\ ConcealedNumber(notation) = 3
    /\ IsErr(tehai) /\ tehai.error = WrongNumber
    /\ Len(tehai.fuuro) = 1
    /\ ~shanten.ok /\ ~conditions.ok

\* The type character that closes the digits from index id on, spaces
\* apart, or "None".
RECURSIVE TypeAfter(_, _)
TypeAfter(string, id) ==
    IF id > Len(string) THEN "None"
    ELSE IF string[id] \in TypeCharacters THEN string[id]
    ELSE IF string[id] \in Digits \cup {" "} THEN TypeAfter(string, id + 1)
    ELSE "None"

\* The notation writes an honor tile of rank 8 or 9.
WritesOutOfRange(string) ==
    \E i \in 1..Len(string) :
        string[i] \in {"8", "9"} /\ TypeAfter(string, i) = "z"

\* C14: a hand written with an out-of-range tile anywhere, such as an honor
\* tile of rank 8 or 9 in the concealed part, is an error hand from the
\* parser on, and the distance calculation returns that error without
\* searching: no decomposition holds such a tile.
C14_OutOfRange ==
    (pc # "string" /\ WritesOutOfRange(notation)) =>
        /\ IsErr(tehai)
        /\ pc \in {"calculated", "analyzed"} => ~shanten.ok

\* The brackets of a notation and the characters within them.
RECURSIVE InsideFrom(_, _, _)
InsideFrom(string, id, inside) ==
    IF id > Len(string) THEN <<>>
    ELSE IF string[id] = "[" THEN <<"[">> \o InsideFrom(string, id + 1, TRUE)
    ELSE IF string[id] = "]" THEN <<"]">> \o InsideFrom(string, id + 1, FALSE)
    ELSE IF inside THEN <<string[id]>> \o InsideFrom(string, id + 1, inside)
    ELSE InsideFrom(string, id + 1, inside)

Inside(string) == InsideFrom(string, 1, FALSE)

Reverse(vec) == [i \in 1..Len(vec) |-> vec[Len(vec) + 1 - i]]

\* The groups of concealed tiles in the opposite order, the digits of each
\* group in the opposite order too; digits that no type character follows
\* write no tile.
RECURSIVE ReverseGroups(_)
ReverseGroups(outside) ==
    LET closing == {i \in 1..Len(outside) : outside[i] \in TypeCharacters}
    IN IF closing = {} THEN <<>>
       ELSE LET k == CHOOSE i \in closing : \A j \in closing : i <= j
            IN ReverseGroups(SubSeq(outside, k + 1, Len(outside)))
               \o Reverse(SubSeq(outside, 1, k - 1)) \o <<outside[k]>>

\* The same melds and the same concealed tiles, the concealed tiles given in
\* another order.
Rearranged(string) == Inside(string) \o ReverseGroups(Outside(string))

Balanced(string) ==
    Cardinality({i \in 1..Len(string) : string[i] = "["})
        = Cardinality({i \in 1..Len(string) : string[i] = "]"})

\* C15: the results are those of the hand alone. The distance and the set of
\* minimal decompositions are the ones calculated from the hand; the list
\* of conditions is the same, in the same order and with the same waits,
\* whichever way the sets of decompositions and of discard candidates are
\* iterated; and the notation that gives the concealed tiles in another
\* order parses to the same hand.
C15_Deterministic ==
    /\ pc \in {"calculated", "analyzed"} => shanten = TryCalculate(tehai)
    /\ pc = "analyzed" =>
           /\ conditions = TryAnalyze(tehai, "None", "ascending")
           /\ conditions = TryAnalyze(tehai, "None", "descending")
    /\ (pc # "string" /\ ~IsErr(tehai) /\ Balanced(notation)) =>
           parse(Rearranged(notation)) = tehai

\* Tiles written out of order and a meld, a rearranged notation that
\* differs, and two conditions or more.
C15_Witness ==
    /\ pc = "analyzed"
    /\ ~IsErr(tehai) /\ Balanced(notation)
    /\ Rearranged(notation) # notation
    /\ ParseChars(ParseStart, notation, 1).menzen # tehai.menzen
    /\ Len(tehai.fuuro) = 1
    /\ conditions.ok /\ Len(conditions.conditions) >= 2

\* C16: check_mentsu gives a run, its tiles in ascending order, for three
\* tiles of one numbered suit whose ranks are consecutive, in whichever
\* order they are given; a triplet for three identical tiles; a quad for
\* four identical tiles; and no meld for anything else: a tile out of
\* range, differing suits, honor tiles that are not identical, ranks
\* neither identical nor consecutive, fewer than three tiles or more than
\* four.
C16_Classified ==
    pc = "classified" =>
        LET kinds == Range(given)
            identical == kinds \subseteq AllHai /\ Cardinality(kinds) = 1
            first == {hai \in AllHai :
                         /\ ~IsJihai(hai) /\ Rank(hai) <= 7
                         /\ kinds = {hai, hai + 1, hai + 2}}
        IN IF Len(given) = 3 /\ first # {}
           THEN \E hai \in first : meld = Juntsu(hai, hai + 1, hai + 2)
           ELSE IF Len(given) = 3 /\ identical
           THEN meld = Koutsu(given[1])
           ELSE IF Len(given) = 4 /\ identical
           THEN meld = Kantsu(given[1])
           ELSE meld = NoMentsu

\* A run given in descending order.
C16_Witness ==
    /\ pc = "classified"
    /\ given = <<Manzu(3), Manzu(2), Manzu(1)>>
    /\ meld = Juntsu(Manzu(1), Manzu(2), Manzu(3))

\* The tiles that characters without brackets write, in the order written.
RECURSIVE TilesFrom(_, _)
TilesFrom(chars, id) ==
    IF id > Len(chars) THEN <<>>
    ELSE IF chars[id] \in Digits /\ TypeAfter(chars, id) # "None"
    THEN <<HaiOf(TypeAfter(chars, id), chars[id])>> \o TilesFrom(chars, id + 1)
    ELSE TilesFrom(chars, id + 1)

TilesOf(chars) == TilesFrom(chars, 1)

\* What stands between each "[" and the "]" that follows it, bracket after
\* bracket.
RECURSIVE BracketsFrom(_, _)
BracketsFrom(string, id) ==
    LET opening == {i \in id..Len(string) : string[i] = "["}
    IN IF opening = {} THEN <<>>
       ELSE LET open == CHOOSE i \in opening : \A j \in opening : i <= j
                closing == {i \in (open + 1)..Len(string) : string[i] = "]"}
            IN IF closing = {} THEN <<>>
               ELSE LET close == CHOOSE i \in closing : \A j \in closing : i <= j
                    IN <<SubSeq(string, open + 1, close - 1)>>
                           \o BracketsFrom(string, close + 1)

Brackets(string) == BracketsFrom(string, 1)

\* A notation of digits, type characters, brackets and spaces, in which
\* brackets open and close in turn, a type character follows every digit and
\* digits precede every type character, the concealed tiles are 3k+2 tiles
\* in range, and each bracket writes one meld.
WellFormed(string) ==
    LET brackets == SelectSeq(string, LAMBDA ch : ch \in {"[", "]"})
    IN /\ \A i \in 1..Len(string) :
              string[i] \in Digits \cup TypeCharacters \cup {"[", "]", " "}
       /\ Len(brackets) % 2 = 0
       /\ \A i \in 1..Len(brackets) : brackets[i] = IF i % 2 = 1 THEN "[" ELSE "]"
       /\ \A i \in 1..Len(string) :
              /\ string[i] \in Digits => TypeAfter(string, i) # "None"
              /\ string[i] \in TypeCharacters =>
                     \E j \in 1..(i - 1) :
                         /\ string[j] \in Digits
                         /\ \A k \in (j + 1)..(i - 1) : string[k] = " "
       /\ ConcealedNumber(string) % 3 = 2
       /\ check_hai_in_range(TilesOf(Outside(string)))
       /\ \A i \in 1..Len(Brackets(string)) :
              check_mentsu(TilesOf(Brackets(string)[i])) # NoMentsu

\* C17: a notation with valid concealed tiles and any number of brackets,
\* each writing one meld, parses to a hand, and the open melds of the hand
\* are the melds of the brackets, one for each bracket, in the order
\* written, each made of the tiles of its own bracket.
C17_Brackets ==
    (pc # "string" /\ WellFormed(notation)) =>
        /\ ~IsErr(tehai)
        /\ tehai.fuuro = [i \in 1..Len(Brackets(notation)) |->
                              check_mentsu(TilesOf(Brackets(notation)[i]))]

\* C18: in a pool made by Haiyama::new, after any adds and discards, the
\* number of every kind is between 0 and 4. An add returns Ok exactly when
\* the number was below 4 and then the number is one more; a discard
\* returns Ok exactly when the number was above 0 and then the number is one
\* less; the number of no other kind changes; and discarding a tile and
\* adding it again gives the pool back.
C18_CountsInRange ==
    pc = "pool" =>
        LET op == haiyama_op
        IN /\ \A hai \in DOMAIN haiyama : haiyama[hai] \in 0..4
           /\ op.kind = "add" =>
                  /\ op.ok <=> op.before[op.hai] < 4
                  /\ op.ok => haiyama[op.hai] = op.before[op.hai] + 1
           /\ op.kind = "discard" =>
                  /\ op.ok <=> op.before[op.hai] > 0
                  /\ op.ok => haiyama[op.hai] = op.before[op.hai] - 1
           /\ op.kind # "new" =>
                  \A other \in DOMAIN haiyama \ {op.hai} :
                      haiyama[other] = op.before[other]
           /\ \A hai \in DOMAIN haiyama :
                  discard(haiyama, hai).ok =>
                      add(discard(haiyama, hai).map, hai) = [map |-> haiyama, ok |-> TRUE]

\* An add that gives the fourth copy back, the last discard undone, while
\* there is none left of another kind.
C18_Witness ==
    /\ pc = "pool"
    /\ haiyama_op.kind = "add" /\ haiyama_op.ok
    /\ haiyama[haiyama_op.hai] = 4
    /\ \E other \in DOMAIN haiyama : haiyama[other] = 0

\* C19: an add of a kind of which there are 4 already returns an error, a
\* discard of a kind of which there is none returns an error, and the pool
\* after either is the pool before.
C19_ErrorsLeavePool ==
    pc = "pool" =>
        LET op == haiyama_op
        IN /\ (op.kind = "add" /\ op.before[op.hai] = 4) =>
                  ~op.ok /\ haiyama = op.before
           /\ (op.kind = "discard" /\ op.before[op.hai] = 0) =>
                  ~op.ok /\ haiyama = op.before

\* A refused discard in a pool where an add would be refused too.
C19_Witness ==
    /\ pc = "pool"
    /\ haiyama_op.kind = "discard" /\ ~haiyama_op.ok
    /\ haiyama[haiyama_op.hai] = 0
    /\ \E other \in DOMAIN haiyama : haiyama[other] = 4 /\ ~add(haiyama, other).ok

\* The same elements, each as many times, in whichever order.
SameCollection(v, w) ==
    /\ Len(v) = Len(w)
    /\ \A x \in Range(v) \cup Range(w) : Count(v, x) = Count(w, x)

SameStructure(d, e) ==
    /\ d.hourakei = e.hourakei
    /\ SameCollection(d.mentsu_vec, e.mentsu_vec)
    /\ SameCollection(d.toitsu_vec, e.toitsu_vec)
    /\ SameCollection(d.taatsu_vec, e.taatsu_vec)
    /\ SameCollection(d.ukihai_vec, e.ukihai_vec)

\* C20: no two members of the set that shanten::calculate returns have the
\* same pattern and the same melds, pairs, partial runs and floating tiles,
\* whichever the order in which the search found them.
C20_Deduplicated ==
    (pc \in {"calculated", "analyzed"} /\ shanten.ok) =>
        \A d, e \in shanten.decomposers : SameStructure(d, e) => d = e

\* The decomposer lists a pair of one kind twice.
PairTwice(d) == Cardinality(Range(d.toitsu_vec)) # Len(d.toitsu_vec)

\* C21, as stated: split pushes no decomposer that lists a pair of one kind
\* twice, so that shanten_number never returns 13 for a pair held twice.
C21_NoPairTwice ==
    pc = "calculated" =>
        \A d \in Range(MentsuteDecomposers(tehai)) : ~PairTwice(d)

\* C21, amended: split pushes decomposers that list a pair of one kind
\* twice, only of a kind of which the hand holds four or more; shanten_number
\* returns 13 for each of them, and the set that shanten::calculate returns
\* holds none of them.
C21_PairTwiceRejected ==
    pc = "calculated" =>
        /\ \A d \in Range(MentsuteDecomposers(tehai)) :
               PairTwice(d) =>
                   /\ shanten_number(d, Len(tehai.menzen)) = 13
                   /\ \A hai \in Range(d.toitsu_vec) :
                          Count(d.toitsu_vec, hai) > 1 => Count(tehai.menzen, hai) >= 4
        /\ \A d \in shanten.decomposers : d.hourakei = "Mentsute" => ~PairTwice(d)

\* A hand of which split pairs the four copies of a kind twice, calculated.
C21_Witness ==
    /\ pc = "calculated"
    /\ shanten.ok /\ shanten.decomposers # {}
    /\ \E d \in Range(MentsuteDecomposers(tehai)) :
           PairTwice(d) /\ shanten_number(d, Len(tehai.menzen)) = 13

\* The candidates for the discard: every floating tile of every decomposer
\* returned and, for the seven-pairs decomposers without floating tile,
\* every lone valid tile.
Candidates ==
    {hai \in AllHai :
        \E d \in shanten.decomposers :
            \/ Contains(d.ukihai_vec, hai)
            \/ /\ d.hourakei = "Chiitoitsu"
               /\ d.ukihai_vec = <<>>
               /\ Contains(d.valid_tile_vec, hai)}

\* C22: the discards of the conditions returned are candidates, each is a
\* tile of the concealed hand and heads one condition only, and a candidate
\* heads no condition only if none of its waits is left.
C22_DiscardsAreCandidates ==
    (pc = "analyzed" /\ conditions.ok /\ shanten.number >= 0) =>
        LET returned == conditions.conditions
            heads == {returned[i].sutehai : i \in 1..Len(returned)}
        IN /\ heads \subseteq Candidates
           /\ \A hai \in heads : Contains(tehai.menzen, hai)
           /\ Cardinality(heads) = Len(returned)
           /\ \A hai \in Candidates \ heads :
                  nokori(ConditionOf(hai, shanten, tehai, "None")) = 0

\* A seven-pairs decomposer without floating tile gives two discards or more
\* with its lone valid tiles.
C22_Witness ==
    /\ pc = "analyzed" /\ conditions.ok /\ shanten.number >= 0
    /\ Len(conditions.conditions) >= 2
    /\ \E d \in shanten.decomposers :
           /\ d.hourakei = "Chiitoitsu" /\ d.ukihai_vec = <<>>
           /\ Discards \subseteq Range(d.valid_tile_vec)

\* What holds of the search at any time: each call that is due has 1, 2 or 3
\* concealed tiles fewer than its caller, its depth is at most the number of
\* concealed tiles of the hand, each call that returned without a call of its
\* own pushed one decomposer, and, when no call is due, the decomposers
\* pushed are those of split.
SearchBounded ==
    pc = "split" =>
        /\ \A i \in 1..Len(search.stack) :
               LET call == search.stack[i]
               IN /\ call.depth <= Len(tehai.menzen)
                  /\ call.depth + Len(call.menzen_vec) <= Len(tehai.menzen)
                  /\ call.depth > 0 =>
                         call.caller - Len(call.menzen_vec) \in 1..3
        /\ Len(search.decomposers_vec) = search.returned
        /\ search.stack = <<>> =>
               search.decomposers_vec = MentsuteDecomposers(tehai)

\* C23: the search ends for every hand: every call of split has 1, 2 or 3
\* concealed tiles fewer than its caller, no depth is above the number of
\* concealed tiles, every branch ends with one decomposer pushed when at
\* most one tile is left, and in the end no call is due.
C23_Terminates == []SearchBounded /\ <>(search.stack = <<>>)

\* The search of a hand of eight tiles or more has ended, with one
\* decomposer for each of its branches.
C23_Witness ==
    /\ pc = "split"
    /\ Len(tehai.menzen) >= 8
    /\ search.stack = <<>>
    /\ search.returned > 1
    /\ Len(search.decomposers_vec) = search.returned

\* C24: no condition that machi::analyze returns is foul, whichever the
\* hand, its open melds and the tile pool.
C24_NeverFuriten ==
    (pc = "analyzed" /\ conditions.ok) =>
        \A i \in 1..Len(conditions.conditions) : ~conditions.conditions[i].furiten

\* Conditions of a hand with an open meld, analysed with a tile pool.
C24_Witness ==
    /\ pc = "analyzed" /\ conditions.ok
    /\ Len(conditions.conditions) >= 2
    /\ Len(tehai.fuuro) = 1
    /\ haiyama # <<>>

\* What machi::analyze returned is what it returns with any other tile pool
\* and with none.
SameWithAnyPool ==
    pc = "analyzed" =>
        \A yama \in Pools : conditions = TryAnalyze(tehai, yama, "ascending")

\* C25: the number, the conditions and the counts that machi::analyze
\* returns are the same with any tile pool and with none, and the tile pool
\* is as it was.
C25_PoolIgnored == []SameWithAnyPool /\ [][haiyama' = haiyama]_vars

\* An analysis with the empty tile pool that returns waits of which copies
\* are left, among them a kind of the pool.
C25_Witness ==
    /\ pc = "analyzed" /\ conditions.ok
    /\ haiyama = [hai \in all_type |-> 0]
    /\ \E i \in 1..Len(conditions.conditions) :
           \E hai \in DOMAIN conditions.conditions[i].machihai :
               hai \in DOMAIN haiyama /\ conditions.conditions[i].machihai[hai] > 0

\* C26: no condition that machi::analyze returns waits for its own discard.
C26_DiscardNotWaited ==
    (pc = "analyzed" /\ conditions.ok) =>
        \A i \in 1..Len(conditions.conditions) :
            conditions.conditions[i].sutehai
                \notin DOMAIN conditions.conditions[i].machihai

\* A condition whose discard is a number tile next to a tile it waits for.
C26_Witness ==
    /\ pc = "analyzed" /\ conditions.ok
    /\ Len(conditions.conditions) >= 2
    /\ \E i \in 1..Len(conditions.conditions) :
           LET cond == conditions.conditions[i]
           IN /\ ~IsJihai(cond.sutehai)
              /\ \E hai \in DOMAIN cond.machihai :
                     /\ hai \div 10 = cond.sutehai \div 10
                     /\ hai - cond.sutehai \in {-2, -1, 1, 2}

\* The number of digit characters of a notation.
DigitNumber(string) == Cardinality({id \in 1..Len(string) : string[id] \in Digits})

\* C27: every tile digit of a notation that parse accepts ends up in the
\* hand: the concealed tiles and the tiles of the open groups are as many as
\* the digit characters of the notation.
C27_EveryDigitKept ==
    (pc = "hand" /\ notation # NoString /\ ~IsErr(tehai)) =>
        Len(tehai.menzen) + Len(FuuroHai(tehai.fuuro)) = DigitNumber(notation)

=============================================================================
